---------------------------- MODULE Spec2Model ----------------------------
(***************************************************************************)
(* Authentication and token lifecycle of the go-commerce user service:    *)
(* AuthService (Register, Login, RefreshToken, GetProfile,                *)
(* ValidateAccessToken) over the Postgres user and refresh-token          *)
(* repositories, the bcrypt hasher and the JWT manager.                   *)
(*                                                                         *)
(* Strings are sequences of one-character strings, so that TrimSpace and  *)
(* ToLower are computed. Each request is a process that takes one step    *)
(* per persistence statement; the statements are atomic, the steps of     *)
(* different requests interleave freely.                                  *)
(***************************************************************************)
EXTENDS Integers, Sequences, FiniteSets, TLC

(***************************************************************************)
(* Bounds of the model.                                                    *)
(***************************************************************************)
NumProcs == 2
MaxRecords == 3
MaxTime == 1
MaxTTL == 3
MaxClock == 4
MaxAuthRPCTimeout == 2
TicksPerSecond == 2
\* The longest password bcrypt hashes (72 bytes), in model characters.
BcryptMaxPasswordLen == 2
\* The longest password handed to the hasher on its own.
MaxPasswordLen == 3
\* The most RPCs in flight when the server is shut down.
MaxInflight == 3
\* The longest timeout of the shutdown context, in ticks.
MaxShutdownTimeout == 3

Procs == 1..NumProcs

(***************************************************************************)
(* Strings.                                                                *)
(***************************************************************************)
IsSpace(c) == c = " "

RECURSIVE TrimLeft(_)
TrimLeft(s) ==
  IF s = <<>> THEN <<>>
  ELSE IF IsSpace(Head(s)) THEN TrimLeft(Tail(s)) ELSE s

RECURSIVE TrimRight(_)
TrimRight(s) ==
  IF s = <<>> THEN <<>>
  ELSE IF IsSpace(s[Len(s)]) THEN TrimRight(SubSeq(s, 1, Len(s) - 1)) ELSE s

\* Variant of strings.TrimSpace that cuts nothing.
TrimSpaceCuttingNothing(s) == s

TrimSpace(s) == TrimRight(TrimLeft(s))

LowerChar(c) ==
  IF c = "A" THEN "a" ELSE IF c = "B" THEN "b" ELSE IF c = "E" THEN "e"
  ELSE IF c = "R" THEN "r" ELSE c

ToLower(s) == [i \in DOMAIN s |-> LowerChar(s[i])]

NormalizeEmail(email) == ToLower(TrimSpace(email))

HexDigits == <<"0", "1", "2", "3", "4", "5", "6", "7",
               "8", "9", "a", "b", "c", "d", "e", "f">>

\* hex.EncodeToString of one byte b.
HexEncode(b) == <<HexDigits[(b \div 16) + 1], HexDigits[(b % 16) + 1]>>

(***************************************************************************)
(* Errors. An error value is the chain errors.Is walks, outermost first;  *)
(* <<>> is nil.                                                            *)
(***************************************************************************)
NilErr == <<>>
ErrUnavailable == "service dependency unavailable"
ErrNotFound == "not found"
ErrEmailTaken == "email already taken"
ErrInvalidToken == "invalid token"
ErrExpiredToken == "expired token"

ErrorsIs(err, target) == \E i \in DOMAIN err : err[i] = target

\* fmt.Errorf(label + ": %w", err)
Wrap(label, err) == <<label>> \o err

\* fmt.Errorf("%w: %s: %v", ErrUnavailable, operation, err): only
\* ErrUnavailable is wrapped, the cause is formatted into the text.
unavailableError(operation, err) == <<operation, ErrUnavailable>>

CodeAuthInvalidCredentials == "AUTH_INVALID_CREDENTIALS"
CodeAuthEmailTaken == "AUTH_EMAIL_TAKEN"
CodeAuthInvalidToken == "AUTH_INVALID_TOKEN"
CodeAuthExpiredToken == "AUTH_EXPIRED_TOKEN"
CodeAuthInvalidRefreshToken == "AUTH_INVALID_REFRESH_TOKEN"

\* *DomainError: <<>> is nil, otherwise <<Code, Message>>.
NilDomainErr == <<>>
DomainError(code, message) == <<code, message>>

(***************************************************************************)
(* Values.                                                                 *)
(***************************************************************************)
\* repo.User{} and service.User{}. The created_at columns, which the
\* database fills in and no decision reads, are left out of the rows.
ZeroRepoUser ==
  [id |-> <<>>, email |-> <<>>, name |-> <<>>, passwordHash |-> <<>>, roles |-> <<>>]

ZeroUser == [id |-> <<>>, email |-> <<>>, name |-> <<>>, roles |-> <<>>]

\* repo.RefreshToken{}; revokedAt is a *time.Time: <<>> is NULL, <<t>> is set.
ZeroRefreshToken ==
  [id |-> <<>>, userID |-> <<>>, tokenHash |-> <<>>, expiresAt |-> 0,
   revokedAt |-> <<>>]

\* An access-token string: blank, unparseable, or a JWT with its header,
\* claims and the key its signature was made with.
BlankAccessToken ==
  [form |-> "blank", alg |-> "", key |-> "", sub |-> <<>>, iss |-> "",
   iat |-> 0, exp |-> 0, jti |-> <<>>, roles |-> <<>>]

GarbageAccessToken == [BlankAccessToken EXCEPT !.form = "garbage"]

\* service.AuthTokens{}
ZeroAuthTokens ==
  [accessToken |-> BlankAccessToken, refreshToken |-> <<>>,
   accessExpiresInSeconds |-> 0, refreshExpiresInSeconds |-> 0]

mapUser(user) ==
  [id |-> user.id, email |-> user.email, name |-> user.name, roles |-> user.roles]

(***************************************************************************)
(* internal/user/auth: random ids, token hash, bcrypt hasher, JWT manager.*)
(***************************************************************************)
\* NewID(byteLen) with the bytes rand.Read delivered; one model byte stands
\* for the byteLen random bytes. Returns [id, err].
NewID(byteLen, entropy) ==
  IF byteLen <= 0
  THEN [id |-> <<>>, err |-> <<"byte length must be > 0">>]
  ELSE [id |-> HexEncode(entropy), err |-> NilErr]

NewRefreshToken(byteLen, entropy) == NewID(byteLen, entropy)

\* SHA-256 of the token: a one-way, collision-free digest of its bytes.
\* Variant of HashToken that hands the raw token on as its own hash.
HashTokenStoringRaw(token) == token

HashToken(token) == <<"sha256">> \o token

\* bcrypt: the hash carries the digest of the key, and the key is made of
\* the first 72 bytes of the password (BcryptMaxPasswordLen characters
\* here); Verify recomputes it from the candidate in the same way.
BcryptHash(password) ==
  <<"$2a$">> \o
    SubSeq(password, 1, IF Len(password) < BcryptMaxPasswordLen
                        THEN Len(password) ELSE BcryptMaxPasswordLen)

BcryptVerify(hash, password) ==
  IF hash = BcryptHash(password) THEN NilErr
  ELSE <<"crypto/bcrypt: hashedPassword is not the hash of the given password">>

\* Variant of the copy that turns the order round.
CopyRolesReversed(roles) == [i \in 1..Len(roles) |-> roles[Len(roles) + 1 - i]]

\* append([]string(nil), roles...)
CopyRoles(roles) == [i \in 1..Len(roles) |-> roles[i]]

\* jwt.NewNumericDate: truncation to whole seconds.
NumericDate(t) == (t \div TicksPerSecond) * TicksPerSecond

\* JWTManager.SignAccessToken. m = [secret, issuer]; returns
\* [token, expiresAt, err].
SignAccessToken(m, userID, roles, ttl, clock, entropy) ==
  IF TrimSpace(userID) = <<>>
  THEN [token |-> BlankAccessToken, expiresAt |-> 0, err |-> <<"user id is required">>]
  ELSE IF ttl <= 0
  THEN [token |-> BlankAccessToken, expiresAt |-> 0,
        err |-> <<"access token ttl must be > 0">>]
  ELSE LET expiresAt == clock + ttl
           jti == NewID(16, entropy)
       IN IF jti.err # NilErr
          THEN [token |-> BlankAccessToken, expiresAt |-> 0,
                err |-> Wrap("generate jti", jti.err)]
          ELSE [token |-> [form |-> "jwt", alg |-> "HS256", key |-> m.secret,
                           sub |-> userID, iss |-> m.issuer,
                           iat |-> NumericDate(clock),
                           exp |-> NumericDate(expiresAt),
                           jti |-> jti.id, roles |-> CopyRoles(roles)],
                expiresAt |-> expiresAt, err |-> NilErr]

\* The errors jwt.Parser.ParseWithClaims reports for a token, as the set of
\* sentinels errors.Is finds in the returned error ({} when err is nil).
JwtParseErrors(m, tok, clock) ==
  IF tok.form # "jwt" THEN {"ErrTokenMalformed"}
  ELSE IF tok.alg # "HS256" THEN {"ErrTokenSignatureInvalid"}
  ELSE IF tok.key # m.secret THEN {"ErrTokenSignatureInvalid"}
  ELSE LET expired == IF clock < tok.exp THEN {} ELSE {"ErrTokenExpired"}
           issuer == IF tok.iss = m.issuer THEN {} ELSE {"ErrTokenInvalidIssuer"}
       IN IF expired \cup issuer = {} THEN {}
          ELSE {"ErrTokenInvalidClaims"} \cup expired \cup issuer

\* Variant of VerifyAccessToken that returns the subject with the white
\* space around it cut.
VerifyAccessTokenTrimmingSubject(m, tok, clock) ==
  IF tok.form = "blank"
  THEN [userID |-> <<>>, roles |-> <<>>, err |-> <<ErrInvalidToken>>]
  ELSE LET errs == JwtParseErrors(m, tok, clock)
       IN IF errs # {}
          THEN IF "ErrTokenExpired" \in errs
               THEN [userID |-> <<>>, roles |-> <<>>, err |-> <<ErrExpiredToken>>]
               ELSE [userID |-> <<>>, roles |-> <<>>, err |-> <<ErrInvalidToken>>]
          ELSE IF TrimSpace(tok.sub) = <<>>
               THEN [userID |-> <<>>, roles |-> <<>>, err |-> <<ErrInvalidToken>>]
               ELSE [userID |-> TrimSpace(tok.sub), roles |-> CopyRoles(tok.roles),
                     err |-> NilErr]

\* JWTManager.VerifyAccessToken. Returns [userID, roles, err].
VerifyAccessToken(m, tok, clock) ==
  IF tok.form = "blank"
  THEN [userID |-> <<>>, roles |-> <<>>, err |-> <<ErrInvalidToken>>]
  ELSE LET errs == JwtParseErrors(m, tok, clock)
       IN IF errs # {}
          THEN IF "ErrTokenExpired" \in errs
               THEN [userID |-> <<>>, roles |-> <<>>, err |-> <<ErrExpiredToken>>]
               ELSE [userID |-> <<>>, roles |-> <<>>, err |-> <<ErrInvalidToken>>]
          ELSE IF TrimSpace(tok.sub) = <<>>
               THEN [userID |-> <<>>, roles |-> <<>>, err |-> <<ErrInvalidToken>>]
               ELSE [userID |-> tok.sub, roles |-> CopyRoles(tok.roles),
                     err |-> NilErr]

(***************************************************************************)
(* internal/user/repo: the Postgres repositories. Each operator is one    *)
(* SQL statement and returns the rows after it together with its result.  *)
(***************************************************************************)
\* The unique index on users(email): the row to insert would duplicate a
\* stored email.
UsersEmailConflict(rows, params) == \E u \in rows : u.email = params.email

\* Variant of Create that does not translate the unique violation (SQLSTATE
\* 23505) into ErrEmailTaken and reports it like any other driver error.
UserRepoCreateUntranslated(rows, params, pgErr) ==
  IF pgErr # NilErr
  THEN [rows |-> rows, user |-> ZeroRepoUser, err |-> Wrap("create user", pgErr)]
  ELSE IF UsersEmailConflict(rows, params)
  THEN [rows |-> rows, user |-> ZeroRepoUser,
        err |-> Wrap("create user", <<"23505">>)]
  ELSE LET user == [id |-> params.id, email |-> params.email, name |-> params.name,
                    passwordHash |-> params.passwordHash, roles |-> params.roles]
       IN [rows |-> rows \cup {user}, user |-> user, err |-> NilErr]

\* PostgresUserRepository.Create. pgErr is the driver failure injected into
\* the statement, NilErr when the statement reaches the table.
UserRepoCreate(rows, params, pgErr) ==
  IF pgErr # NilErr
  THEN [rows |-> rows, user |-> ZeroRepoUser, err |-> Wrap("create user", pgErr)]
  ELSE IF UsersEmailConflict(rows, params)
  THEN [rows |-> rows, user |-> ZeroRepoUser, err |-> <<ErrEmailTaken>>]
  ELSE LET user == [id |-> params.id, email |-> params.email, name |-> params.name,
                    passwordHash |-> params.passwordHash, roles |-> params.roles]
       IN [rows |-> rows \cup {user}, user |-> user, err |-> NilErr]

UserRepoGetByEmail(rows, email, pgErr) ==
  IF pgErr # NilErr
  THEN [user |-> ZeroRepoUser, err |-> Wrap("get user by email", pgErr)]
  ELSE IF \E u \in rows : u.email = email
  THEN [user |-> CHOOSE u \in rows : u.email = email, err |-> NilErr]
  ELSE [user |-> ZeroRepoUser, err |-> <<ErrNotFound>>]

UserRepoGetByID(rows, userID, pgErr) ==
  IF pgErr # NilErr
  THEN [user |-> ZeroRepoUser, err |-> Wrap("get user by id", pgErr)]
  ELSE IF \E u \in rows : u.id = userID
  THEN [user |-> CHOOSE u \in rows : u.id = userID, err |-> NilErr]
  ELSE [user |-> ZeroRepoUser, err |-> <<ErrNotFound>>]

\* refresh_tokens: id is the primary key, token_hash is uniquely indexed.
RefreshTokensConflict(rows, params) ==
  \E r \in rows : r.id = params.id \/ r.tokenHash = params.tokenHash

\* PostgresRefreshTokenRepository.Insert
\* Variant of Insert that stores the record already revoked.
RefreshRepoInsertRevoked(rows, params, pgErr) ==
  IF pgErr # NilErr
  THEN [rows |-> rows, err |-> Wrap("insert refresh token", pgErr)]
  ELSE IF RefreshTokensConflict(rows, params)
  THEN [rows |-> rows, err |-> Wrap("insert refresh token", <<"23505">>)]
  ELSE [rows |-> rows \cup
                 {[id |-> params.id, userID |-> params.userID,
                   tokenHash |-> params.tokenHash, expiresAt |-> params.expiresAt,
                   revokedAt |-> <<params.expiresAt>>]},
        err |-> NilErr]

RefreshRepoInsert(rows, params, pgErr) ==
  IF pgErr # NilErr
  THEN [rows |-> rows, err |-> Wrap("insert refresh token", pgErr)]
  ELSE IF RefreshTokensConflict(rows, params)
  THEN [rows |-> rows, err |-> Wrap("insert refresh token", <<"23505">>)]
  ELSE [rows |-> rows \cup
                 {[id |-> params.id, userID |-> params.userID,
                   tokenHash |-> params.tokenHash, expiresAt |-> params.expiresAt,
                   revokedAt |-> <<>>]},
        err |-> NilErr]

\* Variant of GetValidByHash whose query lacks the condition expires_at > $2.
RefreshRepoGetValidByHashAnyExpiry(rows, tokenHash, clock, pgErr) ==
  LET found == {r \in rows : r.tokenHash = tokenHash /\ r.revokedAt = <<>>}
  IN IF pgErr # NilErr
     THEN [token |-> ZeroRefreshToken,
           err |-> Wrap("get valid refresh token by hash", pgErr)]
     ELSE IF found = {}
     THEN [token |-> ZeroRefreshToken, err |-> <<ErrNotFound>>]
     ELSE [token |-> CHOOSE r \in found : TRUE, err |-> NilErr]

\* Variant of GetValidByHash whose query compares expires_at >= $2.
RefreshRepoGetValidByHashAtExpiry(rows, tokenHash, clock, pgErr) ==
  LET found == {r \in rows : /\ r.tokenHash = tokenHash
                             /\ r.revokedAt = <<>>
                             /\ r.expiresAt >= clock}
  IN IF pgErr # NilErr
     THEN [token |-> ZeroRefreshToken,
           err |-> Wrap("get valid refresh token by hash", pgErr)]
     ELSE IF found = {}
     THEN [token |-> ZeroRefreshToken, err |-> <<ErrNotFound>>]
     ELSE [token |-> CHOOSE r \in found : TRUE, err |-> NilErr]

\* PostgresRefreshTokenRepository.GetValidByHash
RefreshRepoGetValidByHash(rows, tokenHash, clock, pgErr) ==
  LET found == {r \in rows : /\ r.tokenHash = tokenHash
                             /\ r.revokedAt = <<>>
                             /\ r.expiresAt > clock}
  IN IF pgErr # NilErr
     THEN [token |-> ZeroRefreshToken,
           err |-> Wrap("get valid refresh token by hash", pgErr)]
     ELSE IF found = {}
     THEN [token |-> ZeroRefreshToken, err |-> <<ErrNotFound>>]
     ELSE [token |-> CHOOSE r \in found : TRUE, err |-> NilErr]

\* Variant of Revoke whose UPDATE matches the row but writes nothing.
RefreshRepoRevokeNoWrite(rows, tokenID, revokedAt, pgErr) ==
  LET hit == {r \in rows : r.id = tokenID /\ r.revokedAt = <<>>}
  IN IF pgErr # NilErr
     THEN [rows |-> rows, err |-> Wrap("revoke refresh token", pgErr)]
     ELSE IF hit = {}
     THEN [rows |-> rows, err |-> <<ErrNotFound>>]
     ELSE [rows |-> rows, err |-> NilErr]

\* Variant of Revoke whose UPDATE lacks the condition revoked_at IS NULL: it
\* matches the row by id alone and overwrites revoked_at.
RefreshRepoRevokeUnconditional(rows, tokenID, revokedAt, pgErr) ==
  LET hit == {r \in rows : r.id = tokenID}
  IN IF pgErr # NilErr
     THEN [rows |-> rows, err |-> Wrap("revoke refresh token", pgErr)]
     ELSE IF hit = {}
     THEN [rows |-> rows, err |-> <<ErrNotFound>>]
     ELSE [rows |-> (rows \ hit) \cup
                    {[r EXCEPT !.revokedAt = <<revokedAt>>] : r \in hit},
           err |-> NilErr]

\* Variant of Revoke that deletes the row instead of stamping revoked_at.
RefreshRepoRevokeDeleting(rows, tokenID, revokedAt, pgErr) ==
  LET hit == {r \in rows : r.id = tokenID /\ r.revokedAt = <<>>}
  IN IF pgErr # NilErr
     THEN [rows |-> rows, err |-> Wrap("revoke refresh token", pgErr)]
     ELSE IF hit = {}
     THEN [rows |-> rows, err |-> <<ErrNotFound>>]
     ELSE [rows |-> rows \ hit, err |-> NilErr]

\* Variant of Revoke that revokes the whole family: every unrevoked record
\* of the owner of the record with the given id.
RefreshRepoRevokeFamily(rows, tokenID, revokedAt, pgErr) ==
  LET hit == {r \in rows : r.id = tokenID /\ r.revokedAt = <<>>}
      family == {r \in rows : /\ r.revokedAt = <<>>
                              /\ \E h \in hit : h.userID = r.userID}
  IN IF pgErr # NilErr
     THEN [rows |-> rows, err |-> Wrap("revoke refresh token", pgErr)]
     ELSE IF hit = {}
     THEN [rows |-> rows, err |-> <<ErrNotFound>>]
     ELSE [rows |-> (rows \ family) \cup
                    {[r EXCEPT !.revokedAt = <<revokedAt>>] : r \in family},
           err |-> NilErr]

\* PostgresRefreshTokenRepository.Revoke
RefreshRepoRevoke(rows, tokenID, revokedAt, pgErr) ==
  LET hit == {r \in rows : r.id = tokenID /\ r.revokedAt = <<>>}
  IN IF pgErr # NilErr
     THEN [rows |-> rows, err |-> Wrap("revoke refresh token", pgErr)]
     ELSE IF hit = {}
     THEN [rows |-> rows, err |-> <<ErrNotFound>>]
     ELSE [rows |-> (rows \ hit) \cup
                    {[r EXCEPT !.revokedAt = <<revokedAt>>] : r \in hit},
           err |-> NilErr]

(***************************************************************************)
(* State.                                                                  *)
(***************************************************************************)
VARIABLES
  users,            \* rows of table users
  refreshTokens,    \* rows of table refresh_tokens
  now,              \* the wall clock, in ticks
  entropy,          \* the next value crypto/rand delivers; a value is used up
                    \* when it is stored, so that no stored value repeats
  accessTokenTTL,   \* AuthService.accessTokenTTL, in ticks
  refreshTTL,       \* AuthService.refreshTTL, in ticks
  call,             \* per request flow: operation, position, inputs, locals
  result,           \* per request flow: what the operation returned
  ghost,            \* per request flow: history of the running call
  rotated,          \* history: raw tokens a RefreshToken call succeeded with
  successorOf,      \* history: <<new record id, presented record id>>
  issuedRefresh,    \* history: raw refresh tokens returned to callers
  issuedAccess,     \* history: access tokens returned to callers
  codec,            \* the token codec exercised on its own
  edge,             \* the gateway: one request passing through Auth
  hasher,           \* the password hasher exercised on its own
  server            \* the gRPC server of the user service being shut down

vars ==
  <<users, refreshTokens, now, entropy, accessTokenTTL, refreshTTL, call, result,
    ghost, rotated, successorOf, issuedRefresh, issuedAccess, codec, edge, hasher, server>>

\* The JWT manager main() builds: secret and issuer are fixed at startup.
jwtManager == [secret |-> "test-secret", issuer |-> "go-commerce"]

\* NewAuthService: the TTLs it accepts.
NewAuthService(deps) ==
  IF deps.accessTokenTTL <= 0 THEN <<"access token ttl must be > 0">>
  ELSE IF deps.refreshTokenTTL <= 0 THEN <<"refresh token ttl must be > 0">>
  ELSE NilErr

\* Failures a pgx statement can report without having run: the connection
\* is down, or the context passed in is already cancelled or past deadline.
PgFailures == {<<"connection refused">>, <<"context canceled">>}

\* Inputs of the callers.
\* <<email, password, name>>: an address and a name that need normalising,
\* and one blank field at a time.
RegisterInputs ==
  {<<<<" ", "A">>, <<"p">>, <<"n", " ">>>>,
   <<<<" ">>, <<"p">>, <<"n", " ">>>>,
   <<<<"a">>, <<" ">>, <<"n", " ">>>>,
   <<<<"a">>, <<"p">>, <<" ">>>>}

\* <<email, password>>: another spelling of the registered address with the
\* registered password, a wrong password, an address nobody registers, and
\* one blank field at a time.
LoginInputs ==
  {<<<<"A", " ">>, <<"p">>>>,
   <<<<"a">>, <<"p", " ">>>>,
   <<<<"b">>, <<"p">>>>,
   <<<<" ">>, <<"p">>>>,
   <<<<"a">>, <<" ">>>>}

UnknownToken == <<"z", "z">>
UnknownUserID == <<"y", "y">>

\* A caller presents nothing, a token never issued, or an issued token
\* (here with a trailing newline-like blank, which the service trims).
RefreshInputs ==
  {<<>>, <<" ">>, UnknownToken} \cup {t \o <<" ">> : t \in issuedRefresh}

UserIDInputs ==
  {<<" ">>, UnknownUserID} \cup {u.id \o <<" ">> : u \in users}

AccessTokenInputs == {BlankAccessToken, GarbageAccessToken} \cup issuedAccess

IdleCall ==
  [op |-> "none", pc |-> "idle", email |-> <<>>, password |-> <<>>, name |-> <<>>,
   token |-> <<>>, userID |-> <<>>, accessToken |-> BlankAccessToken,
   newUserID |-> <<>>, storedToken |-> ZeroRefreshToken,
   persistedUser |-> ZeroRepoUser]

\* What a call returns: the union of the operations' result tuples.
ZeroResult ==
  [user |-> ZeroUser, tokens |-> ZeroAuthTokens, userID |-> <<>>, roles |-> <<>>,
   domainErr |-> NilDomainErr, err |-> NilErr]

DomainResult(code, message) ==
  [ZeroResult EXCEPT !.domainErr = DomainError(code, message)]

\* Variant of the infrastructure return that also carries a domain error.
InfraResultWithDomainError(err) ==
  [ZeroResult EXCEPT !.err = err,
                     !.domainErr = DomainError(CodeAuthInvalidCredentials,
                                               "invalid credentials")]

InfraResult(err) == [ZeroResult EXCEPT !.err = err]

ZeroGhost ==
  [afterSuccess |-> FALSE, fault |-> "none", lookup |-> "none",
   emailKnown |-> "none", passwordOK |-> "none",
   revoked |-> {}, inserted |-> {}, created |-> {}, repoCalls |-> 0,
   hasherCalls |-> 0, codecCalls |-> 0, revokeErr |-> "none"]

\* The token codec before anything was signed: the manager that signs, the
\* manager that verifies, the inputs of SignAccessToken and the clock both
\* managers read.
IdleCodec ==
  [pc |-> "idle", signer |-> jwtManager, verifier |-> jwtManager,
   userID |-> <<>>, roles |-> <<>>, ttl |-> 0, clock |-> 0, origin |-> "none",
   token |-> BlankAccessToken, expiresAt |-> 0, signedAt |-> 0,
   signErr |-> NilErr,
   fault |-> NilErr,
   verified |-> [userID |-> <<>>, roles |-> <<>>, err |-> NilErr],
   validated |-> ZeroResult]

\* The gateway before a request arrives. A request's header input is the
\* Authorization value together with what is known of it: whether it is a
\* well-formed bearer value and the token it carries.
NoHeader == [value |-> <<>>, bearer |-> FALSE, token |-> <<>>]

NoAnswer == [userID |-> <<>>, roles |-> <<>>, err |-> NilErr]

IdleEdge ==
  [pc |-> "idle", authRPCTimeout |-> 1, input |-> NoHeader,
   requestIDHeader |-> <<>>, requestID |-> <<>>,
   calls |-> <<>>, elapsed |-> 0, ctxErr |-> "none", answer |-> NoAnswer,
   responses |-> <<>>, handled |-> <<>>]

\* The hasher before a password was hashed.
IdleHasher ==
  [pc |-> "idle", password |-> <<>>, candidate |-> <<>>, hash |-> <<>>,
   hashErr |-> NilErr, verifyErr |-> NilErr]

\* The gRPC server as main leaves it when it calls Shutdown: serving, the
\* shutdown context just created, no graceful-stop goroutine yet.
\*   pc       where Shutdown stands
\*   stopper  the goroutine of Shutdown: none, stopping (in GracefulStop),
\*            finished (done is closed)
\*   first    history: which came first, the end of the graceful stop
\*            ("stop") or the end of the context ("ctx")
IdleServer ==
  [pc |-> "mark", health |-> "SERVING", stopper |-> "none", inflight |-> 0,
   timeout |-> 1, elapsed |-> 0, ctxDone |-> FALSE, forced |-> FALSE,
   first |-> "none", ret |-> "none"]

ServiceInit ==
  /\ users = {}
  /\ refreshTokens = {}
  /\ now = 0
  /\ entropy = 0
  /\ accessTokenTTL = TicksPerSecond
  /\ refreshTTL = 1
  /\ NewAuthService([accessTokenTTL |-> accessTokenTTL,
                     refreshTokenTTL |-> refreshTTL]) = NilErr
  /\ call = [p \in Procs |-> IdleCall]
  /\ result = [p \in Procs |-> ZeroResult]
  /\ ghost = [p \in Procs |-> ZeroGhost]
  /\ rotated = {}
  /\ successorOf = {}
  /\ issuedRefresh = {}
  /\ issuedAccess = {}

Init ==
  /\ ServiceInit
  /\ codec = IdleCodec
  /\ edge = IdleEdge
  /\ hasher = IdleHasher
  /\ server = IdleServer

\* A return value is handed to the caller before anything else is
\* scheduled: while some call is at "done", only Release is enabled.
Quiet == \A q \in Procs : call[q].pc # "done"

\* Request flows are anonymous: a new call takes the first free slot.
Free(p) == call[p].pc = "idle"

CanStart(p) ==
  /\ Quiet
  /\ Free(p)
  /\ \A q \in Procs : q < p => ~Free(q)

\* A call that goes on past its first statement may end by inserting a
\* refresh record: it is admitted while the records stored and the calls
\* under way stay within MaxRecords. A call that returns at once needs no room.
Turn(continues) ==
  continues =>
    Cardinality(refreshTokens) + Cardinality({q \in Procs : ~Free(q)}) < MaxRecords

\* The caller takes the result; the slot is free again.
Release(p) ==
  /\ call[p].pc = "done"
  /\ call' = [call EXCEPT ![p] = IdleCall]
  /\ result' = [result EXCEPT ![p] = ZeroResult]
  /\ ghost' = [ghost EXCEPT ![p] = ZeroGhost]
  /\ UNCHANGED <<users, refreshTokens, now, entropy, accessTokenTTL, refreshTTL,
                 rotated, successorOf, issuedRefresh, issuedAccess,
                 codec, edge, hasher, server>>

\* A dependency either works (NilErr) or fails in one of its ways.
MayFail(e, failures) == e = NilErr \/ e \in failures

\* The call of p returns res.
Return(p, c, res) ==
  /\ call' = [call EXCEPT ![p] = [c EXCEPT !.pc = "done"]]
  /\ result' = [result EXCEPT ![p] = res]

Tick ==
  /\ Quiet
  /\ now < MaxTime
  /\ now' = now + 1
  /\ UNCHANGED <<users, refreshTokens, entropy, accessTokenTTL, refreshTTL, call,
                 result, ghost, rotated, successorOf, issuedRefresh, issuedAccess,
                 codec, edge, hasher, server>>

(***************************************************************************)
(* AuthService: the hasher it is built with.                              *)
(***************************************************************************)
\* bcrypt.GenerateFromPassword refuses a password it cannot hash.
HashFailures == {<<"bcrypt: password length exceeds 72 bytes">>}

\* jwt.Token.SignedString fails when the signing method rejects the key.
SignFailures == {<<"key is of invalid type">>}

\* BcryptHasher.Hash. Returns [hash, err].
Hash(password, bcryptErr) ==
  IF bcryptErr # NilErr
  THEN [hash |-> <<>>, err |-> Wrap("hash password", bcryptErr)]
  ELSE [hash |-> BcryptHash(password), err |-> NilErr]

\* Variant of Verify that trims the candidate first.
VerifyTrimmingCandidate(hash, password) == BcryptVerify(hash, TrimSpace(password))

\* BcryptHasher.Verify
Verify(hash, password) == BcryptVerify(hash, password)

InvalidCredentials == DomainResult(CodeAuthInvalidCredentials, "invalid credentials")

InvalidRefreshToken ==
  DomainResult(CodeAuthInvalidRefreshToken, "invalid refresh token")

(***************************************************************************)
(* AuthService.issueTokens: sign, generate the refresh token and its id,  *)
(* insert the record. Returns the rows after it, [tokens, err] and the    *)
(* record id and raw token it generated.                                  *)
(***************************************************************************)
issueTokens(rows, userID, roles, clock, signErr, pgErr) ==
  LET signed == IF signErr # NilErr
                THEN [token |-> BlankAccessToken, expiresAt |-> 0,
                      err |-> Wrap("sign access token", signErr)]
                ELSE SignAccessToken(jwtManager, userID, roles, accessTokenTTL,
                                     clock, entropy)
      raw == NewRefreshToken(32, entropy + 1)
      rid == NewID(16, entropy + 2)
      refreshTokenExpiry == clock + refreshTTL
      ins == RefreshRepoInsert(rows,
               [id |-> rid.id, userID |-> userID,
                tokenHash |-> HashToken(raw.id), expiresAt |-> refreshTokenExpiry],
               pgErr)
      failed(e) == [rows |-> rows, tokens |-> ZeroAuthTokens, err |-> e,
                    id |-> <<>>, raw |-> <<>>]
  IN IF signed.err # NilErr THEN failed(Wrap("sign access token", signed.err))
     ELSE IF raw.err # NilErr THEN failed(Wrap("generate refresh token", raw.err))
     ELSE IF rid.err # NilErr THEN failed(Wrap("generate refresh token id", rid.err))
     ELSE IF ins.err # NilErr THEN failed(unavailableError("insert refresh token", ins.err))
     ELSE [rows |-> ins.rows,
           tokens |-> [accessToken |-> signed.token,
                       refreshToken |-> raw.id,
                       accessExpiresInSeconds |-> accessTokenTTL \div TicksPerSecond,
                       refreshExpiresInSeconds |-> refreshTTL \div TicksPerSecond],
           err |-> NilErr, id |-> rid.id, raw |-> raw.id]

\* The last step of Register, Login and RefreshToken: issueTokens and the
\* return statement after it.
IssueTokens(p, signErr, pgErr) ==
  LET c == call[p]
      out == issueTokens(refreshTokens, c.persistedUser.id, c.persistedUser.roles,
                         now, signErr, pgErr)
      ok == out.err = NilErr
      res == IF ~ok THEN InfraResult(out.err)
             ELSE IF c.op = "RefreshToken"
             THEN [ZeroResult EXCEPT !.tokens = out.tokens]
             ELSE [ZeroResult EXCEPT !.user = mapUser(c.persistedUser),
                                     !.tokens = out.tokens]
  IN /\ Quiet
     /\ c.pc = "issue"
     /\ MayFail(signErr, SignFailures)
     /\ MayFail(pgErr, PgFailures)
     /\ signErr = NilErr \/ pgErr = NilErr
     /\ refreshTokens' = out.rows
     /\ entropy' = IF ok THEN entropy + 3 ELSE entropy
     /\ Return(p, c, res)
     /\ ghost' = [ghost EXCEPT
                    ![p].fault = IF signErr # NilErr THEN "signer"
                                 ELSE IF pgErr # NilErr THEN "persistence" ELSE @,
                    ![p].inserted = IF ok THEN @ \cup {out.id} ELSE @,
                    ![p].repoCalls = IF signErr = NilErr THEN @ + 1 ELSE @,
                    ![p].codecCalls = @ + 1]
     /\ rotated' = IF ok /\ c.op = "RefreshToken"
                   THEN rotated \cup {TrimSpace(c.token)} ELSE rotated
     /\ successorOf' = IF ok /\ c.op = "RefreshToken"
                       THEN successorOf \cup {<<out.id, c.storedToken.id>>}
                       ELSE successorOf
     /\ issuedRefresh' = IF ok THEN issuedRefresh \cup {out.raw} ELSE issuedRefresh
     /\ issuedAccess' = IF ok THEN issuedAccess \cup {out.tokens.accessToken}
                        ELSE issuedAccess
     /\ UNCHANGED <<users, now, accessTokenTTL, refreshTTL, codec, edge, hasher, server>>

(***************************************************************************)
(* AuthService.Register. The call arrives, validates, hashes, draws the   *)
(* user id and runs users.Create in one step: nothing before the first    *)
(* statement touches shared state.                                        *)
(***************************************************************************)
\* Variant of Register's handling of users.Create's error that does not
\* recognise ErrEmailTaken.
RegisterCreateErrorUnclassified(err) ==
  IF err = NilErr THEN ZeroResult
  ELSE InfraResult(unavailableError("create user", err))

\* What Register does with the error of users.Create: the result it
\* returns, or ZeroResult to go on.
RegisterCreateError(err) ==
  IF err = NilErr THEN ZeroResult
  ELSE IF ErrorsIs(err, ErrEmailTaken)
  THEN DomainResult(CodeAuthEmailTaken, "email already taken")
  ELSE InfraResult(unavailableError("create user", err))

Register(p, email, password, name, bcryptErr, pgErr) ==
  LET normalizedEmail == NormalizeEmail(email)
      trimmedName == TrimSpace(name)
      c == [IdleCall EXCEPT !.op = "Register", !.email = email,
                            !.password = password, !.name = name]
      invalid == normalizedEmail = <<>> \/ TrimSpace(password) = <<>>
                   \/ trimmedName = <<>>
      hashed == Hash(password, bcryptErr)
      userID == NewID(16, entropy)
      early == invalid \/ hashed.err # NilErr \/ userID.err # NilErr
      created == UserRepoCreate(users,
                   [id |-> userID.id, email |-> normalizedEmail, name |-> trimmedName,
                    passwordHash |-> hashed.hash, roles |-> <<"customer">>],
                   pgErr)
  IN /\ CanStart(p)
     /\ Turn(~early /\ created.err = NilErr)
     /\ MayFail(bcryptErr, HashFailures)
     /\ MayFail(pgErr, PgFailures)
     /\ invalid => bcryptErr = NilErr
     /\ early => pgErr = NilErr
     /\ users' = IF early THEN users ELSE created.rows
     /\ entropy' = IF ~early /\ created.err = NilErr THEN entropy + 1 ELSE entropy
     /\ ghost' = [ghost EXCEPT ![p] =
                    [ZeroGhost EXCEPT
                       !.fault = IF bcryptErr # NilErr THEN "hasher"
                                 ELSE IF pgErr # NilErr THEN "persistence" ELSE "none",
                       !.emailKnown =
                          IF early THEN "none"
                          ELSE IF \E u \in users : u.email = ToLower(TrimSpace(email))
                          THEN "yes" ELSE "no",
                       !.created = IF early THEN {}
                                   ELSE {u.id : u \in created.rows \ users},
                       !.repoCalls = IF early THEN 0 ELSE 1,
                       !.hasherCalls = IF invalid THEN 0 ELSE 1]]
     /\ IF invalid THEN Return(p, c, InvalidCredentials)
        ELSE IF hashed.err # NilErr
        THEN Return(p, c, InfraResult(Wrap("hash password", hashed.err)))
        ELSE IF userID.err # NilErr
        THEN Return(p, c, InfraResult(Wrap("generate user id", userID.err)))
        ELSE IF created.err # NilErr
        THEN Return(p, c, RegisterCreateError(created.err))
        ELSE /\ call' = [call EXCEPT ![p] = [c EXCEPT !.pc = "issue",
                                                      !.persistedUser = created.user]]
             /\ UNCHANGED result
     /\ UNCHANGED <<refreshTokens, now, accessTokenTTL, refreshTTL, rotated,
                    successorOf, issuedRefresh, issuedAccess, codec, edge, hasher, server>>

(***************************************************************************)
(* AuthService.Login                                                       *)
(***************************************************************************)
\* Variant of Login's handling of users.GetByEmail's error that tells the
\* caller the user does not exist.
LoginGetByEmailErrorUserNotFound(err) ==
  IF ErrorsIs(err, ErrNotFound)
  THEN DomainResult(CodeAuthInvalidCredentials, "user not found")
  ELSE InfraResult(unavailableError("get user by email", err))

\* What Login returns when users.GetByEmail reports an error.
LoginGetByEmailError(err) ==
  IF ErrorsIs(err, ErrNotFound)
  THEN DomainResult(CodeAuthInvalidCredentials, "invalid credentials")
  ELSE InfraResult(unavailableError("get user by email", err))

\* What Login returns when the hasher rejects the password.
LoginVerifyError(verifyErr) ==
  DomainResult(CodeAuthInvalidCredentials, "invalid credentials")

Login(p, email, password, pgErr) ==
  LET normalizedEmail == NormalizeEmail(email)
      c == [IdleCall EXCEPT !.op = "Login", !.email = email, !.password = password]
      invalid == normalizedEmail = <<>> \/ TrimSpace(password) = <<>>
      got == UserRepoGetByEmail(users, normalizedEmail, pgErr)
      verifyErr == Verify(got.user.passwordHash, password)
      owners == {u \in users : u.email = ToLower(TrimSpace(email))}
  IN /\ CanStart(p)
     /\ Turn(~invalid /\ got.err = NilErr /\ verifyErr = NilErr)
     /\ MayFail(pgErr, PgFailures)
     /\ invalid => pgErr = NilErr
     /\ ghost' = [ghost EXCEPT ![p] =
                    [ZeroGhost EXCEPT
                       !.fault = IF pgErr # NilErr THEN "persistence" ELSE "none",
                       !.emailKnown = IF invalid \/ pgErr # NilErr THEN "none"
                                      ELSE IF owners # {} THEN "yes" ELSE "no",
                       !.passwordOK =
                          IF invalid \/ pgErr # NilErr \/ owners = {} THEN "none"
                          ELSE IF \E u \in owners : u.passwordHash = BcryptHash(password)
                          THEN "yes" ELSE "no",
                       !.repoCalls = IF invalid THEN 0 ELSE 1,
                       !.hasherCalls = IF invalid \/ got.err # NilErr THEN 0 ELSE 1]]
     /\ IF invalid THEN Return(p, c, InvalidCredentials)
        ELSE IF got.err # NilErr THEN Return(p, c, LoginGetByEmailError(got.err))
        ELSE IF verifyErr # NilErr THEN Return(p, c, LoginVerifyError(verifyErr))
        ELSE /\ call' = [call EXCEPT ![p] = [c EXCEPT !.pc = "issue",
                                                      !.persistedUser = got.user]]
             /\ UNCHANGED result
     /\ UNCHANGED <<users, refreshTokens, now, entropy, accessTokenTTL, refreshTTL,
                    rotated, successorOf, issuedRefresh, issuedAccess,
                    codec, edge, hasher, server>>

(***************************************************************************)
(* AuthService.RefreshToken                                                *)
(***************************************************************************)
\* What RefreshToken returns for the error of one of its three reads and
\* writes (GetValidByHash, GetByID, Revoke); ZeroResult to go on.
\* Variant of RefreshToken's error handling that does not recognise
\* ErrNotFound.
RefreshStepErrorUnclassified(operation, err) ==
  IF err = NilErr THEN ZeroResult
  ELSE InfraResult(unavailableError(operation, err))

RefreshStepError(operation, err) ==
  IF err = NilErr THEN ZeroResult
  ELSE IF ErrorsIs(err, ErrNotFound) THEN InvalidRefreshToken
  ELSE InfraResult(unavailableError(operation, err))

\* How the store stands towards a token hash at an instant: no record,
\* only revoked records, only revoked or expired ones, or a valid one.
Standing(rows, tokenHash, clock) ==
  LET matches == {r \in rows : r.tokenHash = tokenHash}
  IN IF matches = {} THEN "unknown"
     ELSE IF \A r \in matches : r.revokedAt # <<>> THEN "revoked"
     ELSE IF \A r \in matches : r.revokedAt # <<>> \/ r.expiresAt <= clock
     THEN "expired"
     ELSE "valid"

\* The call arrives, trims and hashes the token and looks the record up.
RefreshToken(p, refreshToken, pgErr) ==
  LET c == [IdleCall EXCEPT !.op = "RefreshToken", !.token = refreshToken]
      trimmedToken == TrimSpace(refreshToken)
      tokenHash == HashToken(trimmedToken)
      got == RefreshRepoGetValidByHash(refreshTokens, tokenHash, now, pgErr)
  IN /\ CanStart(p)
     /\ Turn(trimmedToken # <<>> /\ got.err = NilErr)
     /\ MayFail(pgErr, PgFailures)
     /\ trimmedToken = <<>> => pgErr = NilErr
     /\ ghost' = [ghost EXCEPT ![p] =
                    [ZeroGhost EXCEPT
                       !.afterSuccess = trimmedToken \in rotated,
                       !.fault = IF pgErr # NilErr THEN "persistence" ELSE "none",
                       !.lookup = IF trimmedToken = <<>> THEN "blank"
                                  ELSE IF pgErr # NilErr THEN "failed"
                                  ELSE Standing(refreshTokens, tokenHash, now),
                       !.repoCalls = IF trimmedToken = <<>> THEN 0 ELSE 1]]
     /\ IF trimmedToken = <<>> THEN Return(p, c, InvalidRefreshToken)
        ELSE IF got.err # NilErr
        THEN Return(p, c, RefreshStepError("get valid refresh token", got.err))
        ELSE /\ call' = [call EXCEPT ![p] = [c EXCEPT !.pc = "getUser",
                                                      !.storedToken = got.token]]
             /\ UNCHANGED result
     /\ UNCHANGED <<users, refreshTokens, now, entropy, accessTokenTTL, refreshTTL,
                    rotated, successorOf, issuedRefresh, issuedAccess,
                    codec, edge, hasher, server>>

RefreshGetUser(p, pgErr) ==
  LET c == call[p]
      got == UserRepoGetByID(users, c.storedToken.userID, pgErr)
  IN /\ Quiet
     /\ c.pc = "getUser"
     /\ MayFail(pgErr, PgFailures)
     /\ ghost' = [ghost EXCEPT
                    ![p].fault = IF pgErr # NilErr THEN "persistence" ELSE @,
                    ![p].repoCalls = @ + 1]
     /\ IF got.err # NilErr
        THEN Return(p, c, RefreshStepError("get user by id", got.err))
        ELSE /\ call' = [call EXCEPT ![p] = [c EXCEPT !.pc = "revoke",
                                                      !.persistedUser = got.user]]
             /\ UNCHANGED result
     /\ UNCHANGED <<users, refreshTokens, now, entropy, accessTokenTTL, refreshTTL,
                    rotated, successorOf, issuedRefresh, issuedAccess,
                    codec, edge, hasher, server>>

\* Variant of the revoke step that goes on to issueTokens whatever Revoke
\* returned.
RefreshRevokeIgnoringError(p, pgErr) ==
  LET c == call[p]
      out == RefreshRepoRevoke(refreshTokens, c.storedToken.id, now, pgErr)
  IN /\ Quiet
     /\ c.pc = "revoke"
     /\ MayFail(pgErr, PgFailures)
     /\ refreshTokens' = out.rows
     /\ ghost' = [ghost EXCEPT
                    ![p].revoked = IF out.rows # refreshTokens
                                   THEN @ \cup {c.storedToken.id} ELSE @,
                    ![p].revokeErr = IF out.err = NilErr THEN "nil" ELSE "error",
                    ![p].repoCalls = @ + 1]
     /\ call' = [call EXCEPT ![p] = [c EXCEPT !.pc = "issue"]]
     /\ UNCHANGED <<users, now, entropy, accessTokenTTL, refreshTTL, result, rotated,
                    successorOf, issuedRefresh, issuedAccess, codec, edge, hasher, server>>

RefreshRevoke(p, pgErr) ==
  LET c == call[p]
      out == RefreshRepoRevoke(refreshTokens, c.storedToken.id, now, pgErr)
  IN /\ Quiet
     /\ c.pc = "revoke"
     /\ MayFail(pgErr, PgFailures)
     /\ refreshTokens' = out.rows
     /\ ghost' = [ghost EXCEPT
                    ![p].fault = IF pgErr # NilErr THEN "persistence" ELSE @,
                    ![p].revoked = IF out.rows # refreshTokens
                                   THEN @ \cup {c.storedToken.id} ELSE @,
                    ![p].revokeErr = IF out.err = NilErr THEN "nil" ELSE "error",
                    ![p].repoCalls = @ + 1]
     /\ IF out.err # NilErr
        THEN Return(p, c, RefreshStepError("revoke refresh token", out.err))
        ELSE /\ call' = [call EXCEPT ![p] = [c EXCEPT !.pc = "issue"]]
             /\ UNCHANGED result
     /\ UNCHANGED <<users, now, entropy, accessTokenTTL, refreshTTL, rotated,
                    successorOf, issuedRefresh, issuedAccess, codec, edge, hasher, server>>

(***************************************************************************)
(* AuthService.GetProfile                                                  *)
(***************************************************************************)
\* Variant of GetProfile's error handling that does not recognise ErrNotFound.
GetProfileErrorUnclassified(err) ==
  InfraResult(unavailableError("get profile", err))

GetProfileError(err) ==
  IF ErrorsIs(err, ErrNotFound)
  THEN DomainResult(CodeAuthInvalidCredentials, "invalid credentials")
  ELSE InfraResult(unavailableError("get profile", err))

GetProfile(p, userID, pgErr) ==
  LET c == [IdleCall EXCEPT !.op = "GetProfile", !.userID = userID]
      trimmedUserID == TrimSpace(userID)
      got == UserRepoGetByID(users, trimmedUserID, pgErr)
  IN /\ CanStart(p)
     /\ Turn(FALSE)
     /\ MayFail(pgErr, PgFailures)
     /\ trimmedUserID = <<>> => pgErr = NilErr
     /\ ghost' = [ghost EXCEPT ![p] =
                    [ZeroGhost EXCEPT
                       !.fault = IF pgErr # NilErr THEN "persistence" ELSE "none",
                       !.repoCalls = IF trimmedUserID = <<>> THEN 0 ELSE 1]]
     /\ IF trimmedUserID = <<>> THEN Return(p, c, InvalidCredentials)
        ELSE IF got.err # NilErr THEN Return(p, c, GetProfileError(got.err))
        ELSE Return(p, c, [ZeroResult EXCEPT !.user = mapUser(got.user)])
     /\ UNCHANGED <<users, refreshTokens, now, entropy, accessTokenTTL, refreshTTL,
                    rotated, successorOf, issuedRefresh, issuedAccess,
                    codec, edge, hasher, server>>

(***************************************************************************)
(* AuthService.ValidateAccessToken: no persistence call.                  *)
(***************************************************************************)
\* Variant of the mapping that hands an unexpected codec error to the caller
\* as an infrastructure failure.
ValidateResultSurfacingUnexpected(verified) ==
  IF verified.err # NilErr
  THEN IF ErrorsIs(verified.err, ErrExpiredToken)
       THEN [ZeroResult EXCEPT
               !.domainErr = DomainError(CodeAuthExpiredToken, "token expired")]
       ELSE IF ErrorsIs(verified.err, ErrInvalidToken)
       THEN [ZeroResult EXCEPT
               !.domainErr = DomainError(CodeAuthInvalidToken, "invalid token")]
       ELSE InfraResult(unavailableError("verify access token", verified.err))
  ELSE [ZeroResult EXCEPT !.userID = verified.userID, !.roles = verified.roles]

ValidateResult(verified) ==
  IF verified.err # NilErr
  THEN IF ErrorsIs(verified.err, ErrExpiredToken)
       THEN [ZeroResult EXCEPT
               !.domainErr = DomainError(CodeAuthExpiredToken, "token expired")]
       ELSE IF ErrorsIs(verified.err, ErrInvalidToken)
       THEN [ZeroResult EXCEPT
               !.domainErr = DomainError(CodeAuthInvalidToken, "invalid token")]
       ELSE [ZeroResult EXCEPT
               !.domainErr = DomainError(CodeAuthInvalidToken, "invalid token")]
  ELSE [ZeroResult EXCEPT !.userID = verified.userID, !.roles = verified.roles]

\* Variant of ValidateAccessToken that consults the refresh records: it
\* rejects a token whose subject holds a revoked record.
ValidateAccessTokenCheckingStore(p, accessToken) ==
  LET c == [IdleCall EXCEPT !.op = "ValidateAccessToken",
                            !.accessToken = accessToken]
      verified == VerifyAccessToken(jwtManager, accessToken, now)
      struck == \E r \in refreshTokens :
                  r.userID = verified.userID /\ r.revokedAt # <<>>
  IN /\ CanStart(p)
     /\ Turn(FALSE)
     /\ ghost' = [ghost EXCEPT ![p] = [ZeroGhost EXCEPT !.codecCalls = 1]]
     /\ Return(p, c, IF verified.err = NilErr /\ struck
                     THEN DomainResult(CodeAuthInvalidToken, "invalid token")
                     ELSE ValidateResult(verified))
     /\ UNCHANGED <<users, refreshTokens, now, entropy, accessTokenTTL, refreshTTL,
                    rotated, successorOf, issuedRefresh, issuedAccess,
                    codec, edge, hasher, server>>

ValidateAccessToken(p, accessToken) ==
  LET c == [IdleCall EXCEPT !.op = "ValidateAccessToken",
                            !.accessToken = accessToken]
  IN /\ CanStart(p)
     /\ Turn(FALSE)
     /\ ghost' = [ghost EXCEPT ![p] = [ZeroGhost EXCEPT !.codecCalls = 1]]
     /\ Return(p, c, ValidateResult(VerifyAccessToken(jwtManager, accessToken, now)))
     /\ UNCHANGED <<users, refreshTokens, now, entropy, accessTokenTTL, refreshTTL,
                    rotated, successorOf, issuedRefresh, issuedAccess,
                    codec, edge, hasher, server>>

(***************************************************************************)
(* The system: request flows interleave statement by statement.           *)
(***************************************************************************)
Failing(failures) == {NilErr} \cup failures

\* The position is tested before the inputs are drawn.
Next ==
  \/ Tick
  \/ \E p \in Procs : Release(p)
  \/ \E p \in Procs :
       /\ CanStart(p)
       /\ \E in \in RegisterInputs, bcryptErr \in Failing(HashFailures),
             pgErr \in Failing(PgFailures) :
            Register(p, in[1], in[2], in[3], bcryptErr, pgErr)
  \/ \E p \in Procs :
       /\ CanStart(p)
       /\ \E in \in LoginInputs, pgErr \in Failing(PgFailures) :
            Login(p, in[1], in[2], pgErr)
  \/ \E p \in Procs :
       /\ CanStart(p)
       /\ \E refreshToken \in RefreshInputs, pgErr \in Failing(PgFailures) :
            RefreshToken(p, refreshToken, pgErr)
  \/ \E p \in Procs :
       /\ call[p].pc = "getUser"
       /\ \E pgErr \in Failing(PgFailures) : RefreshGetUser(p, pgErr)
  \/ \E p \in Procs :
       /\ call[p].pc = "revoke"
       /\ \E pgErr \in Failing(PgFailures) : RefreshRevoke(p, pgErr)
  \/ \E p \in Procs :
       /\ call[p].pc = "issue"
       /\ \E signErr \in Failing(SignFailures), pgErr \in Failing(PgFailures) :
            IssueTokens(p, signErr, pgErr)
  \/ \E p \in Procs :
       /\ CanStart(p)
       /\ \E userID \in UserIDInputs, pgErr \in Failing(PgFailures) :
            GetProfile(p, userID, pgErr)
  \/ \E p \in Procs :
       /\ CanStart(p)
       /\ \E accessToken \in AccessTokenInputs : ValidateAccessToken(p, accessToken)

Spec == Init /\ [][Next]_vars

(***************************************************************************)
(* The users table changed from outside the service. The schema declares  *)
(* refresh_tokens.user_id REFERENCES users(id) ON DELETE CASCADE: when a   *)
(* users row is deleted, the refresh records of that user go with it. The  *)
(* service deletes no user itself. The deletion is taken where a           *)
(* RefreshToken call can observe it: after the call found the record and   *)
(* before it looks the owner up, while no other call holds the user read   *)
(* from the store (an Insert for a deleted owner would break the foreign   *)
(* key). It is admitted while fewer than MaxRecords tokens were issued.    *)
(***************************************************************************)
OwnerDeleted(u) ==
  /\ Quiet
  /\ \E p \in Procs : call[p].pc = "getUser" /\ call[p].storedToken.userID = u.id
  /\ \A q \in Procs : call[q].pc \in {"revoke", "issue"} =>
                        call[q].persistedUser.id # u.id
  /\ Cardinality(issuedRefresh) < MaxRecords
  /\ users' = users \ {u}
  /\ refreshTokens' = {r \in refreshTokens : r.userID # u.id}
  /\ UNCHANGED <<now, entropy, accessTokenTTL, refreshTTL, call, result, ghost,
                 rotated, successorOf, issuedRefresh, issuedAccess, codec, edge, hasher, server>>

DeletionNext ==
  \/ \E u \in users : OwnerDeleted(u)
  \/ \E p \in Procs : Release(p)
  \/ \E p \in Procs :
       /\ CanStart(p)
       /\ \E in \in RegisterInputs, bcryptErr \in Failing(HashFailures),
             pgErr \in Failing(PgFailures) :
            Register(p, in[1], in[2], in[3], bcryptErr, pgErr)
  \/ \E p \in Procs :
       /\ CanStart(p)
       /\ \E refreshToken \in RefreshInputs, pgErr \in Failing(PgFailures) :
            RefreshToken(p, refreshToken, pgErr)
  \/ \E p \in Procs :
       /\ call[p].pc = "getUser"
       /\ \E pgErr \in Failing(PgFailures) : RefreshGetUser(p, pgErr)
  \/ \E p \in Procs :
       /\ call[p].pc = "revoke"
       /\ \E pgErr \in Failing(PgFailures) : RefreshRevoke(p, pgErr)
  \/ \E p \in Procs :
       /\ call[p].pc = "issue"
       /\ \E signErr \in Failing(SignFailures), pgErr \in Failing(PgFailures) :
            IssueTokens(p, signErr, pgErr)

DeletionSpec == Init /\ [][DeletionNext]_vars

(***************************************************************************)
(* The token codec on its own: one token is signed (or forged), the clock *)
(* runs, a manager verifies it and AuthService.ValidateAccessToken maps   *)
(* what the manager returned.                                              *)
(***************************************************************************)
serviceVars ==
  <<users, refreshTokens, now, entropy, accessTokenTTL, refreshTTL, call, result,
    ghost, rotated, successorOf, issuedRefresh, issuedAccess>>

\* Managers NewJWTManager can build: the service's own, one with another
\* secret, one with another issuer.
Managers ==
  {jwtManager,
   [jwtManager EXCEPT !.secret = "other-secret"],
   [jwtManager EXCEPT !.issuer = "other-issuer"]}

CodecUserIDs == {<<"u">>, <<"u", " ">>, <<" ">>}
CodecRoles == {<<>>, <<"customer">>, <<"customer", "admin">>}

\* Token strings SignAccessToken did not make: blank, not a JWT, a JWT whose
\* header names another algorithm, a JWT without a signature, a JWT without
\* a subject; the last three also with an expiry that passes.
ForgedTokens ==
  LET jwt == [form |-> "jwt", alg |-> "HS256", key |-> jwtManager.secret,
              sub |-> <<"u">>, iss |-> jwtManager.issuer, iat |-> 0,
              exp |-> MaxClock + 1, jti |-> <<"0", "0">>,
              roles |-> <<"customer">>]
      defective == {[jwt EXCEPT !.alg = "none", !.key = ""],
                    [jwt EXCEPT !.key = ""],
                    [jwt EXCEPT !.sub = <<" ">>]}
  IN {BlankAccessToken, GarbageAccessToken} \cup defective
       \cup {[tok EXCEPT !.exp = TicksPerSecond] : tok \in defective}

\* AccessTokenManager is an interface: an implementation may fail in a way
\* that is neither ErrInvalidToken nor ErrExpiredToken.
CodecFailures == {<<"unexpected token verification error">>}

CodecInit ==
  /\ ServiceInit
  /\ edge = IdleEdge
  /\ hasher = IdleHasher
  /\ server = IdleServer
  /\ \E signer \in Managers, userID \in CodecUserIDs, roles \in CodecRoles,
        ttl \in 0..MaxTTL, clock \in 0..(TicksPerSecond - 1) :
       codec = [IdleCodec EXCEPT !.signer = signer, !.userID = userID,
                                 !.roles = roles, !.ttl = ttl, !.clock = clock]

\* signer.SignAccessToken(userID, roles, ttl) at the current clock.
CodecSign ==
  LET signed == SignAccessToken(codec.signer, codec.userID, codec.roles,
                                codec.ttl, codec.clock, 0)
  IN /\ codec.pc = "idle"
     /\ codec' = [codec EXCEPT !.pc = IF signed.err = NilErr THEN "signed"
                                      ELSE "refused",
                               !.origin = "signed",
                               !.token = signed.token,
                               !.expiresAt = signed.expiresAt,
                               !.signedAt = codec.clock,
                               !.signErr = signed.err]
     /\ UNCHANGED <<serviceVars, edge, hasher, server>>

\* A caller presents a token string of its own making.
CodecPresent(tok) ==
  /\ codec.pc = "idle"
  /\ codec' = [codec EXCEPT !.pc = "signed", !.origin = "forged", !.token = tok]
  /\ UNCHANGED <<serviceVars, edge, hasher, server>>

\* The injected clock runs on while the token is held.
CodecTick ==
  /\ codec.pc = "signed"
  /\ codec.clock < MaxClock
  /\ codec' = [codec EXCEPT !.clock = @ + 1]
  /\ UNCHANGED <<serviceVars, edge, hasher, server>>

\* verifier.VerifyAccessToken(token) at the current clock.
CodecVerify(fault) ==
  /\ codec.pc = "signed"
  /\ MayFail(fault, CodecFailures)
  /\ codec' = [codec EXCEPT
                 !.pc = "verified",
                 !.fault = fault,
                 !.verified =
                    IF fault # NilErr
                    THEN [userID |-> <<>>, roles |-> <<>>, err |-> fault]
                    ELSE VerifyAccessToken(codec.verifier, codec.token, codec.clock)]
  /\ UNCHANGED <<serviceVars, edge, hasher, server>>

\* AuthService.ValidateAccessToken on what the manager returned.
CodecValidate ==
  /\ codec.pc = "verified"
  /\ codec' = [codec EXCEPT !.pc = "validated",
                            !.validated = ValidateResult(codec.verified)]
  /\ UNCHANGED <<serviceVars, edge, hasher, server>>

CodecNext ==
  \/ CodecSign
  \/ \E tok \in ForgedTokens : CodecPresent(tok)
  \/ CodecTick
  \/ \E fault \in Failing(CodecFailures) : CodecVerify(fault)
  \/ CodecValidate

CodecSpec == CodecInit /\ [][CodecNext]_vars

(***************************************************************************)
(* The gateway: one request passes the RequestID and Auth middleware of a *)
(* protected route. An error of the validator is the chain errors.Is and  *)
(* errors.As walk, outermost first; each link says what kind of error it  *)
(* is.                                                                     *)
(***************************************************************************)
\* errors.New / the text fmt.Errorf puts around %w.
TextErr(text) == [kind |-> "text", text |-> text, code |-> <<>>]
\* context.DeadlineExceeded, context.Canceled.
ContextErr(name) == [kind |-> "context", text |-> name, code |-> <<>>]
\* status.Error(code, ...) of google.golang.org/grpc.
StatusErr(code) == [kind |-> "status", text |-> code, code |-> <<>>]
\* *ValidateAccessTokenError: it has Code() and wraps nothing.
CodedErr(code) == [kind |-> "coded", text |-> "", code |-> code]

\* fmt.Errorf(label + ": %w", err)
EdgeWrap(label, err) == <<TextErr(label)>> \o err

\* Contract codes, as the words and underscores they are spelled with.
EdgeCodeInvalidToken == <<"AUTH", "_", "INVALID", "_", "TOKEN">>
EdgeCodeExpiredToken == <<"AUTH", "_", "EXPIRED", "_", "TOKEN">>
EdgeCodeOther == <<"AUTH", "_", "INVALID">>
EdgeCodeInternal == <<"INTERNAL">>

HasPrefix(s, prefix) ==
  Len(s) >= Len(prefix) /\ SubSeq(s, 1, Len(prefix)) = prefix

\* strings.Fields: the maximal runs of non-space characters.
RECURSIVE Fields(_)
Fields(s) ==
  LET t == TrimLeft(s)
      n == IF \E i \in DOMAIN t : IsSpace(t[i])
           THEN (CHOOSE i \in DOMAIN t :
                   IsSpace(t[i]) /\ \A j \in 1..(i - 1) : ~IsSpace(t[j])) - 1
           ELSE Len(t)
  IN IF t = <<>> THEN <<>>
     ELSE <<SubSeq(t, 1, n)>> \o Fields(SubSeq(t, n + 1, Len(t)))

\* strings.EqualFold on the letters the model has.
EqualFold(s, t) == ToLower(s) = ToLower(t)

Bearer == <<"B", "e", "a", "r", "e", "r">>

\* Variant of extractBearerToken that accepts any scheme.
extractBearerTokenAnyScheme(headerValue) ==
  LET parts == Fields(headerValue)
  IN IF Len(parts) # 2 \/ parts[2] = <<>>
     THEN [token |-> <<>>, ok |-> FALSE]
     ELSE [token |-> parts[2], ok |-> TRUE]

\* Variant of extractBearerToken that compares the scheme letter for letter.
extractBearerTokenCaseSensitive(headerValue) ==
  LET parts == Fields(headerValue)
  IN IF Len(parts) # 2 \/ parts[1] # Bearer \/ parts[2] = <<>>
     THEN [token |-> <<>>, ok |-> FALSE]
     ELSE [token |-> parts[2], ok |-> TRUE]

extractBearerToken(headerValue) ==
  LET parts == Fields(headerValue)
  IN IF Len(parts) # 2 \/ ~EqualFold(parts[1], Bearer) \/ parts[2] = <<>>
     THEN [token |-> <<>>, ok |-> FALSE]
     ELSE [token |-> parts[2], ok |-> TRUE]

\* errors.As(err, &codeErr): the first link that has Code().
isInvalidTokenError(err) ==
  /\ \E i \in DOMAIN err : err[i].kind = "coded"
  /\ LET i == CHOOSE i \in DOMAIN err :
                err[i].kind = "coded" /\ \A j \in 1..(i - 1) : err[j].kind # "coded"
     IN HasPrefix(err[i].code, <<"AUTH", "_", "INVALID", "_">>)

\* errors.Is(err, target) for the context sentinels.
EdgeErrorsIs(err, target) == \E i \in DOMAIN err : err[i] = target

\* status.FromError: the first link with GRPCStatus(), found through the
\* wrapping; [ok, code].
StatusFromError(err) ==
  IF \E i \in DOMAIN err : err[i].kind = "status"
  THEN LET i == CHOOSE i \in DOMAIN err :
                  err[i].kind = "status" /\ \A j \in 1..(i - 1) : err[j].kind # "status"
       IN [ok |-> TRUE, code |-> err[i].text]
  ELSE [ok |-> FALSE, code |-> "Unknown"]

\* Variant of isUnavailableError that takes an error without a gRPC status
\* for unavailable.
isUnavailableErrorWithoutStatus(err) ==
  IF EdgeErrorsIs(err, ContextErr("DeadlineExceeded"))
       \/ EdgeErrorsIs(err, ContextErr("Canceled"))
  THEN TRUE
  ELSE LET grpcStatus == StatusFromError(err)
       IN IF ~grpcStatus.ok THEN TRUE
          ELSE grpcStatus.code \in {"Unavailable", "DeadlineExceeded"}

\* Variant of isUnavailableError that does not know the deadline.
isUnavailableErrorWithoutDeadline(err) ==
  IF EdgeErrorsIs(err, ContextErr("Canceled"))
  THEN TRUE
  ELSE LET grpcStatus == StatusFromError(err)
       IN IF ~grpcStatus.ok THEN FALSE
          ELSE grpcStatus.code \in {"Unavailable"}

isUnavailableError(err) ==
  IF EdgeErrorsIs(err, ContextErr("DeadlineExceeded"))
       \/ EdgeErrorsIs(err, ContextErr("Canceled"))
  THEN TRUE
  ELSE LET grpcStatus == StatusFromError(err)
       IN IF ~grpcStatus.ok THEN FALSE
          ELSE grpcStatus.code \in {"Unavailable", "DeadlineExceeded"}

\* RequestID: the X-Request-ID header, or a fresh id when there is none.
newRequestID(randErr, bytes) ==
  IF randErr # NilErr THEN <<"req-unknown">> ELSE <<"req-">> \o HexEncode(bytes)

RequestID(header, randErr, bytes) ==
  IF header = <<>> THEN newRequestID(randErr, bytes) ELSE header

\* What Auth does once the validator has returned: the response it writes,
\* or the context it hands to the next handler.
Reject(statusCode, error) ==
  [next |-> FALSE, response |-> [status |-> statusCode, error |-> error],
   userID |-> <<>>, roles |-> <<>>]

Admit(userID, roles) ==
  [next |-> TRUE, response |-> [status |-> 0, error |-> ""],
   userID |-> userID, roles |-> roles]

\* Variant of Auth that lets a request through when the error is neither an
\* invalid token nor an unavailable dependency.
AuthRespondAdmittingUnknown(answer) ==
  IF answer.err # NilErr
  THEN IF isInvalidTokenError(answer.err) THEN Reject(401, "unauthorized")
       ELSE IF isUnavailableError(answer.err) THEN Reject(503, "auth_unavailable")
       ELSE Admit(answer.userID, CopyRoles(answer.roles))
  ELSE Admit(answer.userID, CopyRoles(answer.roles))

AuthRespond(answer) ==
  IF answer.err # NilErr
  THEN IF isInvalidTokenError(answer.err) THEN Reject(401, "unauthorized")
       ELSE IF isUnavailableError(answer.err) THEN Reject(503, "auth_unavailable")
       ELSE Reject(401, "unauthorized")
  ELSE Admit(answer.userID, CopyRoles(answer.roles))

\* ctx = [userID, roles]: the values Auth stored.
UserIDFromContext(ctx) ==
  IF ctx.userID = <<>> THEN [userID |-> <<>>, ok |-> FALSE]
  ELSE [userID |-> ctx.userID, ok |-> TRUE]

\* Variant of RolesFromContext that hands the roles out in reverse order.
RolesFromContextReversed(ctx) == [roles |-> CopyRolesReversed(ctx.roles), ok |-> TRUE]

RolesFromContext(ctx) == [roles |-> CopyRoles(ctx.roles), ok |-> TRUE]

\* users.Client.ValidateAccessToken around what the rpc returned:
\* rpc = [err, respNil, userID, roles, code].
ClientValidateAccessToken(accessToken, rpc) ==
  LET failed(e) == [userID |-> <<>>, roles |-> <<>>, err |-> e]
  IN IF TrimSpace(accessToken) = <<>>
     THEN failed(<<TextErr("access token is required")>>)
     ELSE IF rpc.err # NilErr
     THEN failed(EdgeWrap("validate access token rpc", rpc.err))
     ELSE IF rpc.respNil
     THEN failed(<<TextErr("validate access token rpc returned nil response")>>)
     ELSE IF rpc.code # <<>> THEN failed(<<CodedErr(rpc.code)>>)
     ELSE [userID |-> rpc.userID, roles |-> CopyRoles(rpc.roles), err |-> NilErr]

\* What the rpc returns: a response with an identity, a response with an
\* error envelope, no response, or a gRPC status.
RpcResponse(userID, roles, code) ==
  [err |-> NilErr, respNil |-> FALSE, userID |-> userID, roles |-> roles,
   code |-> code]

RpcFailure(code) ==
  [err |-> <<StatusErr(code)>>, respNil |-> FALSE, userID |-> <<>>,
   roles |-> <<>>, code |-> <<>>]

RpcOutcomes ==
  {RpcResponse(<<"u">>, <<"customer", "admin">>, <<>>),
   RpcResponse(<<"u">>, <<>>, <<>>),
   RpcResponse(<<>>, <<"customer">>, <<>>),
   RpcResponse(<<>>, <<>>, EdgeCodeInvalidToken),
   RpcResponse(<<>>, <<>>, EdgeCodeExpiredToken),
   RpcResponse(<<>>, <<>>, EdgeCodeOther),
   RpcResponse(<<>>, <<>>, EdgeCodeInternal),
   [RpcResponse(<<>>, <<>>, <<>>) EXCEPT !.respNil = TRUE]}
  \cup {RpcFailure(code) :
          code \in {"Unavailable", "DeadlineExceeded", "Canceled", "Internal"}}

\* Validators other than users.Client (TokenValidator is an interface)
\* return their errors bare or wrapped.
DirectAnswers ==
  {[NoAnswer EXCEPT !.err = e] :
     e \in {<<StatusErr("Unavailable")>>,
            <<ContextErr("DeadlineExceeded")>>,
            <<ContextErr("Canceled")>>,
            EdgeWrap("validate", <<ContextErr("DeadlineExceeded")>>),
            EdgeWrap("validate", <<ContextErr("Canceled")>>),
            <<TextErr("boom")>>}}

ValidatorAnswers(accessToken) ==
  {ClientValidateAccessToken(accessToken, rpc) : rpc \in RpcOutcomes}
    \cup DirectAnswers

\* status.FromContextError: how the gRPC client reports a done context.
StatusFromContextError(ctxErr) ==
  IF ctxErr = "DeadlineExceeded" THEN StatusErr("DeadlineExceeded")
  ELSE IF ctxErr = "Canceled" THEN StatusErr("Canceled")
  ELSE StatusErr("Unknown")

\* A validator that honours the context returns, once the context is done,
\* the context's error: bare, wrapped, or as the gRPC client reports it.
AbortAnswers(accessToken, ctxErr) ==
  {[NoAnswer EXCEPT !.err = <<ContextErr(ctxErr)>>],
   [NoAnswer EXCEPT !.err = EdgeWrap("validate", <<ContextErr(ctxErr)>>)],
   ClientValidateAccessToken(accessToken,
     [RpcFailure("Unknown") EXCEPT !.err = <<StatusFromContextError(ctxErr)>>])}

\* Authorization header values: none, blank, the scheme alone, another
\* scheme, three fields; and bearer values in several spellings.
HeaderInputs ==
  {NoHeader,
   [NoHeader EXCEPT !.value = <<" ">>],
   [NoHeader EXCEPT !.value = Bearer],
   [NoHeader EXCEPT !.value = Bearer \o <<" ">>],
   [NoHeader EXCEPT !.value = <<"T", "o", "k", "e", "n", " ", "t">>],
   [NoHeader EXCEPT !.value = Bearer \o <<"t">>],
   [NoHeader EXCEPT !.value = Bearer \o <<" ", "t", " ", "u">>],
   [value |-> Bearer \o <<" ", "t">>, bearer |-> TRUE, token |-> <<"t">>],
   [value |-> <<"b", "e", "a", "r", "e", "r", " ", "t", "u">>, bearer |-> TRUE,
    token |-> <<"t", "u">>],
   [value |-> <<" ", "B", "E", "A", "R", "E", "R", " ", " ", "u", " ">>,
    bearer |-> TRUE, token |-> <<"u">>]}

RequestIDHeaders == {<<>>, <<"r", "1">>}

EdgeInit ==
  /\ ServiceInit
  /\ codec = IdleCodec
  /\ hasher = IdleHasher
  /\ server = IdleServer
  /\ \E authRPCTimeout \in 1..MaxAuthRPCTimeout :
       edge = [IdleEdge EXCEPT !.authRPCTimeout = authRPCTimeout]

\* The request arrives: RequestID, then Auth up to the call of the
\* validator.
EdgeRequest(input, requestIDHeader, randErr) ==
  LET requestID == RequestID(requestIDHeader, randErr, 0)
      extracted == extractBearerToken(input.value)
  IN /\ edge.pc = "idle"
     /\ edge' = IF ~extracted.ok
                THEN [edge EXCEPT
                        !.pc = "done", !.input = input,
                        !.requestIDHeader = requestIDHeader,
                        !.requestID = requestID,
                        !.responses = Append(@, Reject(401, "unauthorized").response)]
                ELSE [edge EXCEPT
                        !.pc = "waiting", !.input = input,
                        !.requestIDHeader = requestIDHeader,
                        !.requestID = requestID,
                        !.calls = Append(@, [token |-> extracted.token,
                                              requestID |-> requestID])]
     /\ UNCHANGED <<serviceVars, codec, hasher, server>>

\* Time passes while the validator is out; at authRPCTimeout the context
\* of the call is done.
EdgeClock ==
  /\ edge.pc = "waiting"
  /\ edge.ctxErr = "none"
  /\ edge' = [edge EXCEPT
                !.elapsed = @ + 1,
                !.ctxErr = IF edge.elapsed + 1 = edge.authRPCTimeout
                           THEN "DeadlineExceeded" ELSE "none"]
  /\ UNCHANGED <<serviceVars, codec, hasher, server>>

\* The inbound request is cancelled: the context of the call, derived from
\* the request's, is done.
EdgeCancel ==
  /\ edge.pc = "waiting"
  /\ edge.ctxErr = "none"
  /\ edge' = [edge EXCEPT !.ctxErr = "Canceled"]
  /\ UNCHANGED <<serviceVars, codec, hasher, server>>

\* The rest of Auth, once the validator has returned answer.
AuthReturn(answer) ==
  LET out == AuthRespond(answer)
      ctx == [userID |-> out.userID, roles |-> out.roles]
      userID == UserIDFromContext(ctx)
      roles == RolesFromContext(ctx)
  IN edge' = [edge EXCEPT
                !.pc = "done",
                !.answer = answer,
                !.responses = IF out.next THEN @ ELSE Append(@, out.response),
                !.handled = IF out.next
                            THEN Append(@, [userID |-> userID.userID,
                                            userOK |-> userID.ok,
                                            roles |-> roles.roles,
                                            rolesOK |-> roles.ok])
                            ELSE @]

\* The validator returns while the context is live.
ValidatorAnswer ==
  /\ edge.pc = "waiting"
  /\ edge.ctxErr = "none"
  /\ \E answer \in ValidatorAnswers(edge.calls[1].token) : AuthReturn(answer)
  /\ UNCHANGED <<serviceVars, codec, hasher, server>>

\* The context is done and the validator returns because of it.
ValidatorAbort ==
  /\ edge.pc = "waiting"
  /\ edge.ctxErr # "none"
  /\ \E answer \in AbortAnswers(edge.calls[1].token, edge.ctxErr) :
       AuthReturn(answer)
  /\ UNCHANGED <<serviceVars, codec, hasher, server>>

EdgeNext ==
  \/ \E input \in HeaderInputs, requestIDHeader \in RequestIDHeaders,
        randErr \in Failing({<<"rand: read failed">>}) :
       EdgeRequest(input, requestIDHeader, randErr)
  \/ EdgeClock
  \/ EdgeCancel
  \/ ValidatorAnswer
  \/ ValidatorAbort

EdgeSpec == EdgeInit /\ [][EdgeNext]_vars

\* Time passes, and a validator that honours the context returns once the
\* context is done.
EdgeFairSpec ==
  /\ EdgeSpec
  /\ WF_vars(EdgeClock)
  /\ WF_vars(ValidatorAbort)

(***************************************************************************)
(* The password hasher on its own: a password is hashed, then a candidate *)
(* is verified against the hash. GenerateFromPassword refuses a password   *)
(* of more than 72 bytes; CompareHashAndPassword takes any candidate.      *)
(***************************************************************************)
RECURSIVE HasherPasswords(_)
HasherPasswords(n) ==
  IF n = 0 THEN {<<>>}
  ELSE HasherPasswords(n - 1) \cup
       {pw \o <<ch>> : pw \in {q \in HasherPasswords(n - 1) : Len(q) = n - 1},
                       ch \in {"p", "q"}}

HasherHash ==
  /\ hasher.pc = "idle"
  /\ \E password \in HasherPasswords(MaxPasswordLen) :
       LET out == Hash(password,
                       IF Len(password) > BcryptMaxPasswordLen
                       THEN <<"bcrypt: password length exceeds 72 bytes">>
                       ELSE NilErr)
       IN hasher' = [hasher EXCEPT
                       !.pc = IF out.err = NilErr THEN "hashed" ELSE "refused",
                       !.password = password,
                       !.hash = out.hash,
                       !.hashErr = out.err]
  /\ UNCHANGED <<serviceVars, codec, edge, server>>

HasherVerify ==
  /\ hasher.pc = "hashed"
  /\ \E candidate \in HasherPasswords(MaxPasswordLen) :
       hasher' = [hasher EXCEPT !.pc = "verified",
                                !.candidate = candidate,
                                !.verifyErr = Verify(hasher.hash, candidate)]
  /\ UNCHANGED <<serviceVars, codec, edge, server>>

HasherNext == HasherHash \/ HasherVerify

HasherSpec == Init /\ [][HasherNext]_vars

(***************************************************************************)
(* Server.Shutdown, called by main with a context that times out. The     *)
(* goroutine it starts runs GracefulStop, which returns when no RPC is in  *)
(* flight any more or when Stop was called, and then closes done. The      *)
(* select takes a ready case, any of them when both are ready; blocked in  *)
(* the select, Shutdown is woken by the first of the two events.           *)
(***************************************************************************)
ShutdownInit ==
  /\ ServiceInit
  /\ codec = IdleCodec
  /\ edge = IdleEdge
  /\ hasher = IdleHasher
  /\ \E inflight \in 0..MaxInflight, timeout \in 1..MaxShutdownTimeout :
       server = [IdleServer EXCEPT !.inflight = inflight, !.timeout = timeout]

\* healthServer.SetServingStatus(..., NOT_SERVING), twice.
ShutdownMark ==
  /\ server.pc = "mark"
  /\ server' = [server EXCEPT !.pc = "spawn", !.health = "NOT_SERVING"]
  /\ UNCHANGED <<serviceVars, codec, edge, hasher>>

\* done := make(chan struct{}); go func() { GracefulStop(); close(done) }()
ShutdownSpawn ==
  /\ server.pc = "spawn"
  /\ server' = [server EXCEPT !.pc = "select", !.stopper = "stopping"]
  /\ UNCHANGED <<serviceVars, codec, edge, hasher>>

\* select { case <-done: return nil; case <-ctx.Done(): ... }
ShutdownSelect ==
  /\ server.pc = "select"
  /\ \/ /\ server.stopper = "finished"
        /\ server' = [server EXCEPT !.pc = "returned", !.ret = "nil"]
     \/ /\ server.ctxDone
        /\ server' = [server EXCEPT !.pc = "forcing"]
     \/ /\ server.stopper # "finished" /\ ~server.ctxDone
        /\ server' = [server EXCEPT !.pc = "parked"]
  /\ UNCHANGED <<serviceVars, codec, edge, hasher>>

\* Variant of the timeout branch that waits for done without calling Stop.
ShutdownForceWithoutStop ==
  /\ server.pc = "forcing"
  /\ server' = [server EXCEPT !.pc = "draining"]
  /\ UNCHANGED <<serviceVars, codec, edge, hasher>>

\* s.grpcServer.Stop(): the connections are closed, the RPCs in flight are
\* cancelled.
ShutdownForce ==
  /\ server.pc = "forcing"
  /\ server' = [server EXCEPT !.pc = "draining", !.forced = TRUE, !.inflight = 0]
  /\ UNCHANGED <<serviceVars, codec, edge, hasher>>

\* <-done; return ctx.Err()
ShutdownReturn ==
  /\ server.pc = "draining"
  /\ server.stopper = "finished"
  /\ server' = [server EXCEPT !.pc = "returned", !.ret = "DeadlineExceeded"]
  /\ UNCHANGED <<serviceVars, codec, edge, hasher>>

\* The goroutine: GracefulStop returns and done is closed.
StopperFinish ==
  /\ server.stopper = "stopping"
  /\ server.inflight = 0 \/ server.forced
  /\ server' = [server EXCEPT
                  !.stopper = "finished",
                  !.first = IF @ = "none" THEN "stop" ELSE @,
                  !.pc = IF @ = "parked" THEN "returned" ELSE @,
                  !.ret = IF server.pc = "parked" THEN "nil" ELSE @]
  /\ UNCHANGED <<serviceVars, codec, edge, hasher>>

\* An RPC in flight comes to its end; it may also never do so.
RpcEnds ==
  /\ server.pc # "returned"
  /\ server.inflight > 0
  /\ server' = [server EXCEPT !.inflight = @ - 1]
  /\ UNCHANGED <<serviceVars, codec, edge, hasher>>

\* Time passes; at the timeout the shutdown context is done.
ShutdownClock ==
  /\ server.pc # "returned"
  /\ ~server.ctxDone
  /\ server' = [server EXCEPT
                  !.elapsed = @ + 1,
                  !.ctxDone = server.elapsed + 1 >= server.timeout,
                  !.first = IF server.elapsed + 1 >= server.timeout /\ @ = "none"
                            THEN "ctx" ELSE @,
                  !.pc = IF server.elapsed + 1 >= server.timeout /\ @ = "parked"
                         THEN "forcing" ELSE @]
  /\ UNCHANGED <<serviceVars, codec, edge, hasher>>

ShutdownNext ==
  \/ ShutdownMark
  \/ ShutdownSpawn
  \/ ShutdownSelect
  \/ ShutdownForce
  \/ ShutdownReturn
  \/ StopperFinish
  \/ RpcEnds
  \/ ShutdownClock

ShutdownSpec == ShutdownInit /\ [][ShutdownNext]_vars

\* The goroutines are scheduled and the timer of the context runs; nothing
\* makes an RPC end.
ShutdownFairSpec ==
  /\ ShutdownSpec
  /\ WF_vars(ShutdownMark) /\ WF_vars(ShutdownSpawn) /\ WF_vars(ShutdownSelect)
  /\ WF_vars(ShutdownForce) /\ WF_vars(ShutdownReturn)
  /\ WF_vars(StopperFinish) /\ WF_vars(ShutdownClock)

(***************************************************************************)
(* The gRPC handlers of the user service: what each hands to the          *)
(* transport for a result of the AuthService. A pointer is <<>> when nil   *)
(* and <<v>> when set.                                                     *)
(***************************************************************************)
toProtoError(domainErr) ==
  IF domainErr = NilDomainErr THEN <<>>
  ELSE <<[code |-> domainErr[1], message |-> domainErr[2]]>>

mapInfraError(err) ==
  IF ErrorsIs(err, ErrUnavailable)
  THEN <<"Unavailable", "dependency unavailable">>
  ELSE <<"Internal", "internal error">>

\* Variant of the handlers that answers an infrastructure failure with an
\* error envelope.
UserServiceHandlerEnvelopingFailures(op, res) ==
  LET empty == [error |-> <<>>, user |-> <<>>, tokens |-> <<>>,
                userID |-> <<>>, roles |-> <<>>]
  IN [response |-> <<[empty EXCEPT
                        !.error = IF res.domainErr # NilDomainErr
                                  THEN toProtoError(res.domainErr)
                                  ELSE <<[code |-> "INTERNAL",
                                          message |-> "internal error"]>>]>>,
      err |-> NilErr]

\* UserService.Register, Login, RefreshToken, GetProfile and
\* ValidateAccessToken after the call of the AuthService.
UserServiceHandler(op, res) ==
  LET empty == [error |-> <<>>, user |-> <<>>, tokens |-> <<>>,
                userID |-> <<>>, roles |-> <<>>]
      toProtoUser(user) ==
        <<[userID |-> user.id, email |-> user.email, name |-> user.name]>>
      toProtoTokens(tokens) ==
        <<[accessToken |-> tokens.accessToken,
           refreshToken |-> tokens.refreshToken,
           accessExpiresInSeconds |-> tokens.accessExpiresInSeconds,
           refreshExpiresInSeconds |-> tokens.refreshExpiresInSeconds]>>
  IN IF res.domainErr # NilDomainErr
     THEN [response |-> <<[empty EXCEPT !.error = toProtoError(res.domainErr)]>>,
           err |-> NilErr]
     ELSE IF res.err # NilErr
     THEN [response |-> <<>>, err |-> mapInfraError(res.err)]
     ELSE [response |->
             <<CASE op \in {"Register", "Login"} ->
                      [empty EXCEPT !.user = toProtoUser(res.user),
                                    !.tokens = toProtoTokens(res.tokens)]
                 [] op = "RefreshToken" ->
                      [empty EXCEPT !.tokens = toProtoTokens(res.tokens)]
                 [] op = "GetProfile" ->
                      [empty EXCEPT !.user = toProtoUser(res.user)]
                 [] OTHER ->
                      [empty EXCEPT !.userID = res.userID,
                                    !.roles = CopyRoles(res.roles)]>>,
           err |-> NilErr]

(***************************************************************************)
(* Properties.                                                             *)
(***************************************************************************)
\* The call of p has returned from operation op and the caller has not yet
\* taken the result.
Returned(p, op) == call[p].pc = "done" /\ call[p].op = op

\* The success outcome: no domain error and no infrastructure error.
Success(res) == res.domainErr = NilDomainErr /\ res.err = NilErr

\* The record with this id is one GetValidByHash would return at this instant.
ValidRecord(id) ==
  \E r \in refreshTokens : r.id = id /\ r.revokedAt = <<>> /\ r.expiresAt > now

EmailTaken == DomainResult(CodeAuthEmailTaken, "email already taken")

\* C1: once a RefreshToken call with raw token T has returned success, a
\* RefreshToken call with T that starts afterwards never succeeds and never
\* inserts a record; when no persistence call of it fails, it returns
\* AUTH_INVALID_REFRESH_TOKEN.
C1_SingleUseInSequence ==
  \A p \in Procs :
    call[p].op = "RefreshToken" /\ ghost[p].afterSuccess =>
      /\ ghost[p].inserted = {}
      /\ call[p].pc = "done" =>
           /\ ~Success(result[p])
           /\ result[p].tokens = ZeroAuthTokens
           /\ ghost[p].fault = "none" => result[p] = InvalidRefreshToken

\* A call that started after a success with the same raw token has been
\* refused: the lookup found only the revoked record.
C1_Witness ==
  \E p \in Procs :
    /\ Returned(p, "RefreshToken")
    /\ ghost[p].afterSuccess
    /\ ghost[p].fault = "none"
    /\ ghost[p].lookup = "revoked"
    /\ result[p] = InvalidRefreshToken

\* C2 (as the code behaves): concurrent rotations of one raw token are
\* serialised by the conditional UPDATE of Revoke. No presented record ever
\* has two successor records, and a call whose lookup found the record valid
\* but whose Revoke matched no row returns AUTH_INVALID_REFRESH_TOKEN without
\* inserting anything.
C2_RaceClosedByConditionalRevoke ==
  /\ \A a \in successorOf, b \in successorOf : a[2] = b[2] => a = b
  /\ \A p \in Procs :
       /\ Returned(p, "RefreshToken")
       /\ ghost[p].lookup = "valid"
       /\ ghost[p].revokeErr = "error"
       /\ ghost[p].fault = "none"
       => /\ result[p] = InvalidRefreshToken
          /\ ghost[p].inserted = {}
          /\ ghost[p].revoked = {}

\* The loser of a race: its lookup found the record valid, another call
\* revoked the record before its own Revoke ran, and it was refused.
C2_Witness ==
  \E p \in Procs :
    /\ Returned(p, "RefreshToken")
    /\ ghost[p].lookup = "valid"
    /\ ghost[p].revokeErr = "error"
    /\ ghost[p].fault = "none"
    /\ result[p] = InvalidRefreshToken
    /\ \E r \in refreshTokens : r.id = call[p].storedToken.id /\ r.revokedAt # <<>>

\* C2 as stated: the race window is open, so a call that has observed the
\* record as not yet revoked and meets no failure goes on to return success.
C2_AsStated ==
  \A p \in Procs :
    /\ Returned(p, "RefreshToken")
    /\ ghost[p].lookup = "valid"
    /\ ghost[p].fault = "none"
    => /\ Success(result[p])
       /\ result[p].tokens # ZeroAuthTokens

\* C3 as stated: a RefreshToken call that does not return success leaves no
\* partial write: every record it revoked has a successor record persisted.
C3_AsStated ==
  \A p \in Procs :
    Returned(p, "RefreshToken") /\ ~Success(result[p]) =>
      \A id \in ghost[p].revoked : \E s \in successorOf : s[2] = id

\* A RefreshToken call has returned an infrastructure failure after revoking
\* the presented record; the record stays revoked and has no successor.
C3_Witness ==
  \E p \in Procs :
    /\ Returned(p, "RefreshToken")
    /\ result[p].err # NilErr
    /\ ghost[p].fault = "persistence"
    /\ ghost[p].revoked = {call[p].storedToken.id}
    /\ ghost[p].inserted = {}
    /\ \E r \in refreshTokens : r.id = call[p].storedToken.id /\ r.revokedAt # <<>>
    /\ ~\E s \in successorOf : s[2] = call[p].storedToken.id

\* C4: within one RefreshToken call the new record is inserted only after
\* Revoke of the presented record has returned nil; a call whose Revoke
\* returned an error issues no token and inserts nothing; and a presented
\* record and the successor created by its rotation are never both valid.
C4_RevokeBeforeIssue ==
  /\ \A p \in Procs :
       call[p].op = "RefreshToken" =>
         /\ call[p].pc = "issue" => ghost[p].revokeErr = "nil"
         /\ ghost[p].inserted # {} =>
              ghost[p].revokeErr = "nil" /\ ghost[p].revoked # {}
         /\ ghost[p].revokeErr = "error" =>
              /\ call[p].pc = "done"
              /\ ghost[p].inserted = {}
              /\ result[p].tokens = ZeroAuthTokens
  /\ \A s \in successorOf : ~(ValidRecord(s[1]) /\ ValidRecord(s[2]))

\* A rotation has completed: the successor is valid and the presented
\* record is stored revoked.
C4_Witness ==
  \E p \in Procs :
    /\ Returned(p, "RefreshToken")
    /\ Success(result[p])
    /\ ghost[p].revokeErr = "nil"
    /\ \E s \in successorOf :
         /\ s[1] \in ghost[p].inserted
         /\ s[2] \in ghost[p].revoked
         /\ ValidRecord(s[1])
         /\ ~ValidRecord(s[2])

\* C5: RefreshToken returns AUTH_INVALID_REFRESH_TOKEN, with nil
\* infrastructure error and an empty token pair, when the presented token is
\* blank, matches no record, or matches only expired or revoked records; the
\* call revokes nothing and inserts nothing.
C5_InvalidRefreshTokenRejected ==
  \A p \in Procs :
    /\ Returned(p, "RefreshToken")
    /\ ghost[p].lookup \in {"blank", "unknown", "expired", "revoked"}
    => /\ result[p].domainErr =
            DomainError(CodeAuthInvalidRefreshToken, "invalid refresh token")
       /\ result[p].err = NilErr
       /\ result[p].tokens = ZeroAuthTokens
       /\ ghost[p].revoked = {}
       /\ ghost[p].inserted = {}

\* An expired, never revoked token has been presented and refused.
C5_Witness ==
  \E p \in Procs :
    /\ Returned(p, "RefreshToken")
    /\ ghost[p].lookup = "expired"
    /\ result[p].domainErr # NilDomainErr
    /\ \E r \in refreshTokens :
         /\ r.tokenHash = HashToken(TrimSpace(call[p].token))
         /\ r.revokedAt = <<>>
         /\ r.expiresAt <= now

\* C6: Login with an email no user has and Login with a stored email and a
\* wrong password return one and the same result (AUTH_INVALID_CREDENTIALS
\* with the same message, zero user, zero tokens, nil infrastructure error)
\* and write nothing to the store.
C6_LoginDoesNotLeak ==
  \A p \in Procs :
    /\ Returned(p, "Login")
    /\ ghost[p].emailKnown = "no" \/ ghost[p].passwordOK = "no"
    => /\ result[p] =
            [ZeroResult EXCEPT
               !.domainErr = DomainError(CodeAuthInvalidCredentials,
                                         "invalid credentials")]
       /\ ghost[p].inserted = {}
       /\ ghost[p].created = {}
       /\ ghost[p].revoked = {}

\* A Login with a stored email and a wrong password has been refused.
C6_Witness ==
  \E p \in Procs :
    /\ Returned(p, "Login")
    /\ ghost[p].emailKnown = "yes"
    /\ ghost[p].passwordOK = "no"
    /\ result[p].domainErr # NilDomainErr

\* C7: Register with an email whose trimmed, lower-cased form is the stored
\* email of a user returns AUTH_EMAIL_TAKEN with nil infrastructure error,
\* creates no user and inserts no refresh record (the INSERT reaching the
\* table).
C7_RegisterEmailTaken ==
  \A p \in Procs :
    /\ Returned(p, "Register")
    /\ ghost[p].emailKnown = "yes"
    /\ ghost[p].fault = "none"
    => /\ result[p].domainErr = DomainError(CodeAuthEmailTaken, "email already taken")
       /\ result[p].err = NilErr
       /\ result[p].user = ZeroUser
       /\ result[p].tokens = ZeroAuthTokens
       /\ ghost[p].created = {}
       /\ ghost[p].inserted = {}

\* A Register whose email is spelt differently from the stored one, but
\* normalizes to it, has been refused.
C7_Witness ==
  \E p \in Procs :
    /\ Returned(p, "Register")
    /\ ghost[p].emailKnown = "yes"
    /\ result[p].domainErr # NilDomainErr
    /\ \E u \in users : u.email # call[p].email
                        /\ u.email = ToLower(TrimSpace(call[p].email))

\* C8: no two stored users have the same normalized email; of the Register
\* calls under way at once for one normalized email at most one gets its
\* user created; and a Register call with valid input that meets no failure
\* returns either success or AUTH_EMAIL_TAKEN.
C8_EmailUniqueness ==
  /\ \A u \in users, v \in users :
       ToLower(TrimSpace(u.email)) = ToLower(TrimSpace(v.email)) => u = v
  /\ \A p \in Procs, q \in Procs :
       /\ p # q
       /\ call[p].op = "Register"
       /\ call[q].op = "Register"
       /\ ToLower(TrimSpace(call[p].email)) = ToLower(TrimSpace(call[q].email))
       => ghost[p].created = {} \/ ghost[q].created = {}
  /\ \A p \in Procs :
       /\ Returned(p, "Register")
       /\ ghost[p].emailKnown # "none"
       /\ ghost[p].fault = "none"
       => \/ Success(result[p]) /\ ghost[p].created # {}
          \/ result[p] = EmailTaken /\ ghost[p].created = {}

\* Two Register calls for one normalized email overlap: the first has its
\* user created and has not returned yet, the second has been refused.
C8_Witness ==
  \E p \in Procs, q \in Procs :
    /\ call[p].op = "Register"
    /\ call[p].pc = "issue"
    /\ ghost[p].created # {}
    /\ Returned(q, "Register")
    /\ ToLower(TrimSpace(call[p].email)) = ToLower(TrimSpace(call[q].email))
    /\ result[q] = EmailTaken

\* C9 as stated: every failure Register, Login, RefreshToken or GetProfile
\* returns on the infrastructure channel satisfies
\* errors.Is(err, ErrUnavailable).
C9_AsStated ==
  \A p \in Procs :
    /\ call[p].pc = "done"
    /\ call[p].op \in {"Register", "Login", "RefreshToken", "GetProfile"}
    /\ result[p].err # NilErr
    => ErrorsIs(result[p].err, ErrUnavailable)

\* Register has returned the hasher's failure on the infrastructure channel,
\* and the error is not ErrUnavailable.
C9_Witness ==
  \E p \in Procs :
    /\ Returned(p, "Register")
    /\ ghost[p].fault = "hasher"
    /\ result[p].err # NilErr
    /\ ~ErrorsIs(result[p].err, ErrUnavailable)

\* C10: every call returns exactly one of success, a domain error with a
\* non-empty code and nil infrastructure error, or an infrastructure error
\* with nil domain error; on a domain error or an infrastructure error the
\* returned user, tokens, user id and roles are zero values.
C10_ThreeOutcomes ==
  \A p \in Procs :
    call[p].pc = "done" =>
      /\ ~(result[p].domainErr # NilDomainErr /\ result[p].err # NilErr)
      /\ result[p].domainErr # NilDomainErr =>
           Len(result[p].domainErr) = 2 /\ result[p].domainErr[1] # ""
      /\ ~Success(result[p]) =>
           /\ result[p].user = ZeroUser
           /\ result[p].tokens = ZeroAuthTokens
           /\ result[p].userID = <<>>
           /\ result[p].roles = <<>>

\* A call has returned an infrastructure failure and nothing else.
C10_Witness ==
  \E p \in Procs :
    /\ call[p].pc = "done"
    /\ result[p].err # NilErr
    /\ result[p].domainErr = NilDomainErr
    /\ result[p].user = ZeroUser
    /\ result[p].tokens = ZeroAuthTokens

\* C11. ValidateAccessToken never returns an infrastructure failure: the
\* codec's ErrExpiredToken becomes AUTH_EXPIRED_TOKEN, its ErrInvalidToken
\* and any other codec error become AUTH_INVALID_TOKEN, and on codec success
\* the codec's user id and roles are returned with no domain error.
C11_ValidateNeverInfra ==
  codec.pc = "validated" =>
    LET verified == codec.verified
        res == codec.validated
    IN /\ res.err = NilErr
       /\ verified.err = <<ErrExpiredToken>> =>
            /\ res.domainErr = DomainError(CodeAuthExpiredToken, "token expired")
            /\ res.userID = <<>> /\ res.roles = <<>>
       /\ verified.err = <<ErrInvalidToken>> =>
            /\ res.domainErr = DomainError(CodeAuthInvalidToken, "invalid token")
            /\ res.userID = <<>> /\ res.roles = <<>>
       /\ verified.err \in CodecFailures =>
            /\ res.domainErr = DomainError(CodeAuthInvalidToken, "invalid token")
            /\ res.userID = <<>> /\ res.roles = <<>>
       /\ verified.err = NilErr =>
            /\ res.domainErr = NilDomainErr
            /\ res.userID = verified.userID
            /\ res.roles = verified.roles
       /\ verified.err \in
            {NilErr, <<ErrExpiredToken>>, <<ErrInvalidToken>>} \cup CodecFailures

\* An unexpected codec error was mapped.
C11_Witness ==
  /\ codec.pc = "validated"
  /\ codec.fault \in CodecFailures
  /\ codec.validated.domainErr = DomainError(CodeAuthInvalidToken, "invalid token")

\* A string that is empty once surrounding white space is cut.
Blank(s) == \A i \in DOMAIN s : IsSpace(s[i])

\* The call of p was made with an input its operation rejects as empty.
EmptyInput(p) ==
  LET c == call[p]
  IN \/ c.op = "Register" /\ (Blank(c.email) \/ Blank(c.password) \/ Blank(c.name))
     \/ c.op = "Login" /\ (Blank(c.email) \/ Blank(c.password))
     \/ c.op = "RefreshToken" /\ Blank(c.token)
     \/ c.op = "GetProfile" /\ Blank(c.userID)

\* A call with an empty input has returned its domain error and has called
\* no repository, hasher or token-codec operation.
RejectedAtOnce ==
  \A p \in Procs :
    EmptyInput(p) =>
      /\ call[p].pc = "done"
      /\ result[p] = IF call[p].op = "RefreshToken" THEN InvalidRefreshToken
                     ELSE InvalidCredentials
      /\ ghost[p].repoCalls = 0
      /\ ghost[p].hasherCalls = 0
      /\ ghost[p].codecCalls = 0
      /\ ghost[p].created = {} /\ ghost[p].inserted = {} /\ ghost[p].revoked = {}

\* The step in which a call with an empty input is made leaves the store as
\* it was.
StoreUntouched ==
  \A p \in Procs :
    (call[p].pc = "idle" /\ call'[p].pc # "idle" /\ EmptyInput(p)')
      => users' = users /\ refreshTokens' = refreshTokens /\ entropy' = entropy

\* C12. Validation failures have no side effects: Register, Login,
\* RefreshToken and GetProfile called with an empty (after trimming) input
\* return their domain error in their first step, having called no
\* repository, hasher or token-codec operation, and leave the store unchanged.
C12_ValidationFailureNoSideEffects ==
  []RejectedAtOnce /\ [][StoreUntouched]_vars

\* Register has rejected an empty name while the store held rows.
C12_Witness ==
  /\ users # {} /\ refreshTokens # {}
  /\ \E p \in Procs :
       /\ Returned(p, "Register") /\ Blank(call[p].name)
       /\ result[p] = InvalidCredentials

\* The gateway answered the request itself, once, with this status and body.
Responded(statusCode, error) ==
  edge.responses = <<[status |-> statusCode, error |-> error]>>

\* C13. A request whose Authorization header is absent or is not a
\* well-formed bearer value gets 401 {"error":"unauthorized"}; the validator
\* is never invoked for it and neither is the downstream handler.
C13_MalformedHeaderRejected ==
  (edge.pc # "idle" /\ ~edge.input.bearer) =>
    /\ edge.pc = "done"
    /\ Responded(401, "unauthorized")
    /\ edge.calls = <<>>
    /\ edge.handled = <<>>

\* A header with two fields and another scheme was rejected.
C13_Witness ==
  /\ edge.pc = "done"
  /\ edge.input.value = <<"T", "o", "k", "e", "n", " ", "t">>
  /\ Responded(401, "unauthorized")

\* The error says that the call ran out of time, was cancelled or found the
\* transport unavailable: as a context error or as a gRPC status, at any
\* depth of wrapping.
DependencyFailure(err) ==
  \E i \in DOMAIN err :
    \/ err[i].kind = "context" /\ err[i].text \in {"DeadlineExceeded", "Canceled"}
    \/ err[i].kind = "status"
         /\ err[i].text \in {"DeadlineExceeded", "Canceled", "Unavailable"}

\* The error carries a contract code of the user service.
DomainFailure(err) == \E i \in DOMAIN err : err[i].kind = "coded"

\* C14. If the validation call fails because its deadline was exceeded,
\* because it was cancelled or because the transport reported unavailable,
\* in every form the validator can surface these, the response is 503
\* {"error":"auth_unavailable"} and the downstream handler is not invoked.
C14_AsStated ==
  (edge.pc = "done" /\ DependencyFailure(edge.answer.err)) =>
    /\ Responded(503, "auth_unavailable")
    /\ edge.handled = <<>>

\* The inbound request was cancelled, the gRPC client reported it as status
\* Canceled, and the gateway answered 401.
C14_Witness ==
  /\ edge.pc = "done"
  /\ edge.ctxErr = "Canceled"
  /\ edge.answer.err = EdgeWrap("validate access token rpc", <<StatusErr("Canceled")>>)
  /\ Responded(401, "unauthorized")

\* The validator was called for the request and has returned.
Answered == edge.pc = "done" /\ edge.calls # <<>>

\* C15. The gateway never admits a request on failure: the downstream
\* handler is invoked if and only if the validator returned a nil error for
\* the request's bearer token, and a validator error that is neither a
\* domain error nor a deadline, cancel or unavailable failure gives 401.
C15_NeverAdmittedOnFailure ==
  /\ Len(edge.handled) <= 1
  /\ edge.handled # <<>> <=> (Answered /\ edge.answer.err = NilErr)
  /\ edge.handled # <<>> => edge.responses = <<>>
  /\ (Answered /\ edge.answer.err # NilErr
        /\ ~DomainFailure(edge.answer.err)
        /\ ~DependencyFailure(edge.answer.err))
       => Responded(401, "unauthorized")

\* The validator failed in a way nobody classifies and the request was
\* rejected.
C15_Witness ==
  /\ Answered
  /\ edge.answer.err = <<TextErr("boom")>>
  /\ Responded(401, "unauthorized")
  /\ edge.handled = <<>>

\* C16. 'Log in again' and 'retry shortly' stay apart: a validator error
\* that carries a domain error code gives 401 unauthorized and never 503,
\* and every 503 auth_unavailable comes from a deadline, cancel or
\* unavailable failure and never from a domain error.
C16_OutcomesKeptApart ==
  /\ (Answered /\ DomainFailure(edge.answer.err)) =>
       Responded(401, "unauthorized")
  /\ (\E i \in DOMAIN edge.responses : edge.responses[i].status = 503) =>
       /\ Answered
       /\ Responded(503, "auth_unavailable")
       /\ DependencyFailure(edge.answer.err)
       /\ ~DomainFailure(edge.answer.err)

\* The user service answered AUTH_EXPIRED_TOKEN, which lacks the
\* AUTH_INVALID_ prefix, and the gateway answered 401.
C16_Witness ==
  /\ Answered
  /\ edge.answer.err = <<CodedErr(EdgeCodeExpiredToken)>>
  /\ Responded(401, "unauthorized")

\* The request has at most one outcome, a response of the gateway or the
\* call of the downstream handler; a finished request has exactly one; and
\* when the validator was still out at authRPCTimeout the outcome is 503.
OneOutcome ==
  /\ Len(edge.responses) + Len(edge.handled) <= 1
  /\ edge.pc = "done" => Len(edge.responses) + Len(edge.handled) = 1
  /\ (edge.pc = "done" /\ edge.elapsed = edge.authRPCTimeout) =>
       Responded(503, "auth_unavailable")

\* C17. The gateway enforces a hard deadline: with a validator that honours
\* the cancellation of its context, a request with a well-formed bearer
\* header eventually gets exactly one response, 503 auth_unavailable if the
\* validator has not answered within authRPCTimeout; it never hangs.
C17_HardDeadline ==
  /\ []OneOutcome
  /\ (edge.pc = "waiting" /\ edge.input.bearer) ~> (edge.pc = "done")

\* The validator was out for the whole of a timeout of more than one tick
\* and the gateway answered 503.
C17_Witness ==
  /\ edge.pc = "done"
  /\ edge.input.bearer
  /\ edge.authRPCTimeout > 1
  /\ edge.elapsed = edge.authRPCTimeout
  /\ edge.ctxErr = "DeadlineExceeded"
  /\ Responded(503, "auth_unavailable")

\* C18. On validator success the validator was called with exactly the
\* token of the Authorization header and the request id of the request, and
\* the downstream handler reads from the request context exactly the user id
\* and the roles, in their order, that the validator returned.
C18_IdentityHandedOn ==
  edge.handled # <<>> =>
    /\ edge.calls = <<[token |-> edge.input.token, requestID |-> edge.requestID]>>
    /\ edge.requestIDHeader # <<>> => edge.requestID = edge.requestIDHeader
    /\ edge.requestID # <<>>
    /\ edge.handled[1].userID = edge.answer.userID
    /\ edge.handled[1].userOK = (edge.answer.userID # <<>>)
    /\ edge.handled[1].roles = edge.answer.roles
    /\ edge.handled[1].rolesOK

\* A request spelled in capitals with blanks around the token was admitted
\* with two roles.
C18_Witness ==
  /\ edge.handled # <<>>
  /\ edge.input.token = <<"u">>
  /\ edge.requestIDHeader = <<"r", "1">>
  /\ edge.handled[1].userID = <<"u">>
  /\ edge.handled[1].roles = <<"customer", "admin">>

\* SignAccessToken made the token and VerifyAccessToken of the verifying
\* manager itself, not a failing stand-in, has returned.
VerifiedSigned ==
  /\ codec.pc \in {"verified", "validated"}
  /\ codec.origin = "signed"
  /\ codec.fault = NilErr

\* C19. For a token SignAccessToken made with ttl > 0, verified by a manager
\* with the same secret and issuer: VerifyAccessToken succeeds whenever the
\* clock is strictly before the expires_at SignAccessToken returned, and
\* fails with ErrExpiredToken whenever the clock is strictly after it.
C19_AsStated ==
  (VerifiedSigned /\ codec.signer = codec.verifier /\ codec.ttl > 0) =>
    /\ codec.clock < codec.expiresAt => codec.verified.err = NilErr
    /\ codec.clock > codec.expiresAt => codec.verified.err = <<ErrExpiredToken>>

\* A token signed half a second past the second for one second is refused
\* as expired while the clock is still before the returned expires_at.
C19_Witness ==
  /\ VerifiedSigned
  /\ codec.signer = codec.verifier
  /\ codec.ttl = TicksPerSecond
  /\ codec.clock < codec.expiresAt
  /\ codec.token.exp < codec.expiresAt
  /\ codec.verified.err = <<ErrExpiredToken>>

\* C20. VerifyAccessToken returns ErrInvalidToken for every token signed
\* with another secret or carrying another issuer than the manager's, at
\* every clock value, also past the token's expiry; never success and never
\* ErrExpiredToken.
C20_AsStated ==
  (VerifiedSigned
     /\ (codec.token.key # codec.verifier.secret
           \/ codec.token.iss # codec.verifier.issuer)) =>
    codec.verified.err = <<ErrInvalidToken>>

\* A token of another issuer, signed with the manager's secret and past its
\* expiry, is reported as expired.
C20_Witness ==
  /\ VerifiedSigned
  /\ codec.token.key = codec.verifier.secret
  /\ codec.token.iss # codec.verifier.issuer
  /\ codec.clock >= codec.token.exp
  /\ codec.verified.err = <<ErrExpiredToken>>

\* C21. Sign/verify round trip: for a non-empty user id, any role list and
\* ttl > 0, VerifyAccessToken by the same manager, before the token's expiry,
\* returns exactly the user id and the roles, in their order, that were
\* passed to SignAccessToken.
C21_RoundTrip ==
  (VerifiedSigned /\ codec.signer = codec.verifier) =>
    /\ codec.clock < codec.token.exp =>
         /\ codec.verified.err = NilErr
         /\ codec.verified.userID = codec.userID
         /\ codec.verified.roles = codec.roles
    /\ codec.verified.err = NilErr =>
         /\ codec.verified.userID = codec.userID
         /\ codec.verified.roles = codec.roles

\* A user id with a trailing blank and two roles came back as they were.
C21_Witness ==
  /\ VerifiedSigned
  /\ codec.signer = codec.verifier
  /\ codec.userID = <<"u", " ">>
  /\ codec.roles = <<"customer", "admin">>
  /\ codec.verified.err = NilErr
  /\ codec.verified.userID = <<"u", " ">>
  /\ codec.verified.roles = <<"customer", "admin">>

\* The token is not one the manager m would have made: blank, malformed,
\* wrongly signed or unsigned, of another algorithm, of another issuer, or
\* without a subject.
Defective(tok, m) ==
  \/ tok.form # "jwt"
  \/ tok.alg # "HS256"
  \/ tok.key # m.secret
  \/ tok.iss # m.issuer
  \/ Blank(tok.sub)

\* C22. ErrExpiredToken is kept for an otherwise valid token past its
\* expiry: for a blank or malformed token, a wrong or absent signature,
\* another algorithm than HS256, a wrong issuer or an empty subject
\* VerifyAccessToken returns ErrInvalidToken, also when the token is past its
\* expiry.
C22_AsStated ==
  (codec.pc \in {"verified", "validated"} /\ codec.fault = NilErr
     /\ Defective(codec.token, codec.verifier)) =>
    codec.verified.err = <<ErrInvalidToken>>

\* A correctly signed token without a subject, past its expiry, is reported
\* as expired.
C22_Witness ==
  /\ codec.pc = "verified"
  /\ codec.fault = NilErr
  /\ codec.origin = "forged"
  /\ Blank(codec.token.sub)
  /\ codec.token.key = codec.verifier.secret
  /\ codec.token.iss = codec.verifier.issuer
  /\ codec.clock >= codec.token.exp
  /\ codec.verified.err = <<ErrExpiredToken>>

\* C23. SignAccessToken returns an error and no token if the user id is
\* empty after trimming or ttl <= 0; every token it makes has a non-empty
\* subject, the manager's issuer, issued_at equal to the clock at signing and
\* expires_at = issued_at + ttl, so that expires_at > issued_at, and the
\* returned expiry equals the token's expires_at.
C23_AsStated ==
  codec.origin = "signed" =>
    /\ (Blank(codec.userID) \/ codec.ttl <= 0) =>
         codec.signErr # NilErr /\ codec.token = BlankAccessToken
    /\ codec.signErr = NilErr =>
         /\ ~Blank(codec.token.sub)
         /\ codec.token.iss = codec.signer.issuer
         /\ codec.token.iat = codec.signedAt
         /\ codec.token.exp = codec.token.iat + codec.ttl
         /\ codec.token.exp > codec.token.iat
         /\ codec.expiresAt = codec.token.exp

\* A token signed on the second for half a second expires when it is issued.
C23_Witness ==
  /\ codec.origin = "signed"
  /\ codec.signErr = NilErr
  /\ codec.signedAt = 0
  /\ codec.ttl = 1
  /\ codec.token.exp = codec.token.iat
  /\ codec.expiresAt > codec.token.exp

\* The token hashes a caller can present: those of the issued tokens and
\* that of a token never issued.
PresentableHashes == {HashToken(t) : t \in issuedRefresh \cup {UnknownToken}}

\* The records GetValidByHash may return for a hash at the present instant.
ValidByHash(h) ==
  {r \in refreshTokens : r.tokenHash = h /\ r.revokedAt = <<>> /\ r.expiresAt > now}

\* C24. GetValidByHash(hash, now) returns a record if and only if the store
\* holds a record with that hash whose revoked_at is null and whose
\* expires_at is strictly greater than now; otherwise it returns NotFound,
\* exactly what it returns on a store without any match, and RefreshToken
\* answers a revoked, an expired and an unknown token alike.
C24_GetValidByHash ==
  /\ \A h \in PresentableHashes :
       LET got == RefreshRepoGetValidByHash(refreshTokens, h, now, NilErr)
       IN /\ got.err = NilErr <=> ValidByHash(h) # {}
          /\ got.err = NilErr => got.token \in ValidByHash(h)
          /\ got.err # NilErr =>
               /\ got.err = <<ErrNotFound>>
               /\ got = RefreshRepoGetValidByHash({}, h, now, NilErr)
  /\ \A p \in Procs :
       /\ (call[p].op = "RefreshToken" /\ call[p].pc = "getUser") =>
            ghost[p].lookup = "valid"
       /\ (Returned(p, "RefreshToken")
             /\ ghost[p].lookup \in {"unknown", "revoked", "expired"}) =>
            result[p] = InvalidRefreshToken

\* A record that is not revoked and expires at this very instant is in the
\* store, and GetValidByHash reports NotFound for its hash.
C24_Witness ==
  \E r \in refreshTokens :
    /\ r.revokedAt = <<>>
    /\ r.expiresAt = now
    /\ RefreshRepoGetValidByHash(refreshTokens, r.tokenHash, now, NilErr).err
         = <<ErrNotFound>>
    /\ \E p \in Procs : /\ Returned(p, "RefreshToken")
                        /\ ghost[p].lookup = "expired"
                        /\ HashToken(TrimSpace(call[p].token)) = r.tokenHash

\* C25. Revoke(id, t) returns success and sets revoked_at = t only if the
\* record exists and its revoked_at is null; on an already-revoked or unknown
\* id it returns NotFound and changes nothing. So of the concurrent calls
\* that revoke one record, exactly one succeeds and the others get NotFound
\* (which RefreshToken returns as AUTH_INVALID_REFRESH_TOKEN).
C25_RevokeWinLose ==
  /\ \A id \in {r.id : r \in refreshTokens} \cup {UnknownToken} :
       LET out == RefreshRepoRevoke(refreshTokens, id, now, NilErr)
           open == {r \in refreshTokens : r.id = id /\ r.revokedAt = <<>>}
           again == RefreshRepoRevoke(out.rows, id, now, NilErr)
       IN /\ out.err = NilErr <=> open # {}
          /\ out.err = NilErr =>
               out.rows = (refreshTokens \ open) \cup
                            {[r EXCEPT !.revokedAt = <<now>>] : r \in open}
          /\ out.err # NilErr =>
               out.err = <<ErrNotFound>> /\ out.rows = refreshTokens
          /\ again.err = <<ErrNotFound>> /\ again.rows = out.rows
  /\ \A p, q \in Procs :
       (/\ p # q
        /\ call[p].op = "RefreshToken" /\ call[q].op = "RefreshToken"
        /\ call[p].storedToken.id = call[q].storedToken.id
        /\ ghost[p].revokeErr # "none" /\ ghost[q].revokeErr # "none"
        /\ ghost[p].fault = "none" /\ ghost[q].fault = "none") =>
         /\ (ghost[p].revokeErr = "nil") # (ghost[q].revokeErr = "nil")
         /\ ghost[p].revokeErr = "error" =>
              Returned(p, "RefreshToken") /\ result[p] = InvalidRefreshToken

\* Two calls have revoked the same record, neither met a persistence
\* failure: one won and the other was told the token is invalid.
C25_Witness ==
  \E p, q \in Procs :
    /\ p # q
    /\ call[p].op = "RefreshToken" /\ call[q].op = "RefreshToken"
    /\ call[p].storedToken.id = call[q].storedToken.id
    /\ ghost[p].fault = "none" /\ ghost[q].fault = "none"
    /\ ghost[p].revokeErr = "nil"
    /\ ghost[q].revokeErr = "error"
    /\ result[q] = InvalidRefreshToken
    /\ \E r \in refreshTokens : r.id = call[p].storedToken.id /\ r.revokedAt # <<>>

\* C26. Over every sequence of Register, Login and RefreshToken operations
\* no refresh record is ever deleted, a record's revoked_at once set is never
\* cleared or changed, its token hash, owner and expires_at never change, and
\* a record that is no longer valid (revoked or expired) never becomes valid
\* again.
C26_LifecycleMonotone ==
  [][\A r \in refreshTokens :
       LET after == {s \in refreshTokens' : s.id = r.id}
       IN /\ Cardinality(after) = 1
          /\ \A s \in after :
               /\ s.tokenHash = r.tokenHash
               /\ s.userID = r.userID
               /\ s.expiresAt = r.expiresAt
               /\ r.revokedAt # <<>> => s.revokedAt = r.revokedAt
               /\ (r.revokedAt # <<>> \/ r.expiresAt <= now) =>
                    (s.revokedAt # <<>> \/ s.expiresAt <= now')]_vars

\* A record revoked at instant 0 still carries that stamp at instant 1, next
\* to its successor, which has expired unrevoked and is still in the store.
C26_Witness ==
  /\ now = 1
  /\ \E r, s \in refreshTokens :
       /\ r.revokedAt = <<0>>
       /\ <<s.id, r.id>> \in successorOf
       /\ s.revokedAt = <<>>
       /\ s.expiresAt <= now

\* C27. Every successful Register, Login or RefreshToken inserts exactly one
\* new refresh record, owned by the authenticated user, with
\* expires_at = now + refreshTTL, revoked_at null and token_hash equal to
\* HashToken of the raw refresh token returned to the caller; the raw value
\* itself never reaches the store; an operation that does not succeed returns
\* no raw token; and nothing else inserts a record.
C27_OneRowPerIssuance ==
  [][LET fresh == {r \in refreshTokens' :
                        r.id \notin {s.id : s \in refreshTokens}}
     IN /\ \A p \in Procs :
             (call[p].pc # "done" /\ call'[p].pc = "done"
                /\ call'[p].op \in {"Register", "Login", "RefreshToken"}) =>
               IF Success(result'[p])
               THEN /\ Cardinality(fresh) = 1
                    /\ \A r \in fresh :
                         /\ r.userID = call'[p].persistedUser.id
                         /\ call'[p].op # "RefreshToken" =>
                              r.userID = result'[p].user.id
                         /\ call'[p].op = "RefreshToken" =>
                              r.userID = call'[p].storedToken.userID
                         /\ r.expiresAt = now + refreshTTL
                         /\ r.revokedAt = <<>>
                         /\ r.tokenHash = HashToken(result'[p].tokens.refreshToken)
                         /\ result'[p].tokens.refreshToken # <<>>
                         /\ result'[p].tokens.refreshToken \notin
                              {r.id, r.userID, r.tokenHash}
               ELSE /\ fresh = {}
                    /\ result'[p].tokens = ZeroAuthTokens
        /\ fresh # {} =>
             \E p \in Procs : /\ call[p].pc = "issue" /\ call'[p].pc = "done"
                              /\ Success(result'[p])]_vars

\* A RefreshToken call has succeeded: the one record it inserted belongs to
\* the owner of the record it rotated and carries the hash of the raw token
\* in the result.
C27_Witness ==
  \E p \in Procs :
    /\ Returned(p, "RefreshToken")
    /\ Success(result[p])
    /\ Cardinality(ghost[p].inserted) = 1
    /\ \E r \in refreshTokens :
         /\ r.id \in ghost[p].inserted
         /\ r.userID = call[p].storedToken.userID
         /\ r.tokenHash = HashToken(result[p].tokens.refreshToken)
         /\ r.expiresAt = now + refreshTTL
         /\ r.revokedAt = <<>>

\* C28. For every AuthService that NewAuthService accepts (both TTLs > 0),
\* every token pair returned by a successful Register, Login or RefreshToken
\* has AccessExpiresInSeconds > 0 and RefreshExpiresInSeconds > 0.
C28_AsStated ==
  NewAuthService([accessTokenTTL |-> accessTokenTTL,
                  refreshTokenTTL |-> refreshTTL]) = NilErr =>
    \A p \in Procs :
      (call[p].pc = "done" /\ call[p].op \in {"Register", "Login", "RefreshToken"}
         /\ Success(result[p])) =>
        /\ result[p].tokens.accessExpiresInSeconds > 0
        /\ result[p].tokens.refreshExpiresInSeconds > 0

\* The service was accepted with a refresh TTL of half a second, and a
\* successful Register reports a refresh lifetime of 0 seconds.
C28_Witness ==
  /\ refreshTTL > 0
  /\ refreshTTL < TicksPerSecond
  /\ NewAuthService([accessTokenTTL |-> accessTokenTTL,
                     refreshTokenTTL |-> refreshTTL]) = NilErr
  /\ \E p \in Procs :
       /\ Returned(p, "Register")
       /\ Success(result[p])
       /\ result[p].tokens.refreshToken # <<>>
       /\ result[p].tokens.accessExpiresInSeconds > 0
       /\ result[p].tokens.refreshExpiresInSeconds = 0

\* C29. ValidateAccessToken performs no persistence read or write and its
\* outcome depends only on the token and the clock: an access token issued
\* by Register, Login or RefreshToken validates successfully until its own
\* expiry in every later store state, also after the refresh token issued
\* with it has been rotated or revoked.
C29_StatelessValidation ==
  \A p \in Procs :
    Returned(p, "ValidateAccessToken") =>
      LET tok == call[p].accessToken
      IN /\ ghost[p].repoCalls = 0
         /\ ghost[p].revoked = {} /\ ghost[p].inserted = {} /\ ghost[p].created = {}
         /\ result[p] = ValidateResult(VerifyAccessToken(jwtManager, tok, now))
         /\ tok \in issuedAccess =>
              IF now < tok.exp
              THEN /\ Success(result[p])
                   /\ result[p].userID = tok.sub
                   /\ result[p].roles = tok.roles
              ELSE result[p] = DomainResult(CodeAuthExpiredToken, "token expired")

\* An issued access token validates successfully although the store holds
\* refresh records of its subject and every one of them is revoked.
C29_Witness ==
  \E p \in Procs :
    /\ Returned(p, "ValidateAccessToken")
    /\ call[p].accessToken \in issuedAccess
    /\ Success(result[p])
    /\ \E r \in refreshTokens : r.userID = result[p].userID
    /\ \A r \in refreshTokens : r.userID = result[p].userID => r.revokedAt # <<>>
    /\ rotated # {}

\* C30. When RefreshToken finds a valid record but the lookup of its owning
\* user reports not-found, it returns the domain error
\* AUTH_INVALID_REFRESH_TOKEN with a nil infrastructure error, and it leaves
\* the store as it is: it revokes no record and inserts none.
C30_OwnerNotFound ==
  \A p \in Procs :
    (/\ Returned(p, "RefreshToken")
     /\ ghost[p].lookup = "valid"
     /\ ghost[p].fault = "none"
     /\ ~\E u \in users : u.id = call[p].storedToken.userID) =>
      /\ result[p] = InvalidRefreshToken
      /\ result[p].err = NilErr
      /\ result[p].domainErr = DomainError(CodeAuthInvalidRefreshToken,
                                           "invalid refresh token")
      /\ ghost[p].repoCalls = 2
      /\ ghost[p].revokeErr = "none"
      /\ ghost[p].revoked = {}
      /\ ghost[p].inserted = {}
      /\ ~\E r \in refreshTokens :
            r.id = call[p].storedToken.id /\ r.revokedAt # <<>>

\* A RefreshToken call found a valid record, its owner was deleted before
\* the call looked the owner up, and the call has returned.
C30_Witness ==
  \E p \in Procs :
    /\ Returned(p, "RefreshToken")
    /\ ghost[p].lookup = "valid"
    /\ ghost[p].fault = "none"
    /\ call[p].storedToken # ZeroRefreshToken
    /\ ~\E u \in users : u.id = call[p].storedToken.userID
    /\ result[p] = InvalidRefreshToken

\* C31. GetProfile returns the stored user when the trimmed id exists,
\* returns AUTH_INVALID_CREDENTIALS both for an empty id and for an id that
\* matches no user, returns the unavailable infrastructure failure for any
\* other persistence error, and never writes to the store.
C31_GetProfile ==
  \A p \in Procs :
    Returned(p, "GetProfile") =>
      LET trimmedUserID == TrimSpace(call[p].userID)
          found == {u \in users : u.id = trimmedUserID}
      IN /\ trimmedUserID = <<>> =>
              result[p] = InvalidCredentials /\ ghost[p].repoCalls = 0
         /\ (trimmedUserID # <<>> /\ ghost[p].fault = "none" /\ found # {}) =>
              \E u \in found : result[p] = [ZeroResult EXCEPT !.user = mapUser(u)]
         /\ (trimmedUserID # <<>> /\ ghost[p].fault = "none" /\ found = {}) =>
              result[p] = InvalidCredentials
         /\ ghost[p].fault # "none" =>
              /\ result[p].domainErr = NilDomainErr
              /\ ErrorsIs(result[p].err, ErrUnavailable)
              /\ result[p].user = ZeroUser
         /\ result[p].domainErr # NilDomainErr => result[p] = InvalidCredentials
         /\ ghost[p].created = {} /\ ghost[p].inserted = {} /\ ghost[p].revoked = {}
         /\ ghost[p].repoCalls <= 1

\* With users in the store, a GetProfile call for an id that matches none of
\* them has returned the same answer as for an empty id.
C31_Witness ==
  \E p \in Procs :
    /\ Returned(p, "GetProfile")
    /\ users # {}
    /\ TrimSpace(call[p].userID) = UnknownUserID
    /\ ghost[p].fault = "none"
    /\ result[p] = InvalidCredentials

\* C32. At the transport boundary of the user service, for each of Register,
\* Login, RefreshToken, GetProfile and ValidateAccessToken: a domain error is
\* returned as a response envelope whose code and message equal the domain
\* error's, with a nil transport error and no success payload; an
\* infrastructure failure is returned as a transport status error with no
\* response, never as an envelope; and no response carries both an error
\* envelope and a success payload.
C32_TransportBoundary ==
  \A p \in Procs :
    call[p].pc = "done" =>
      LET res == result[p]
          out == UserServiceHandler(call[p].op, res)
          payload(r) == r.user # <<>> \/ r.tokens # <<>>
                          \/ r.userID # <<>> \/ r.roles # <<>>
      IN /\ res.domainErr # NilDomainErr =>
              /\ out.err = NilErr
              /\ Len(out.response) = 1
              /\ Len(out.response[1].error) = 1
              /\ out.response[1].error[1].code = res.domainErr[1]
              /\ out.response[1].error[1].message = res.domainErr[2]
              /\ ~payload(out.response[1])
         /\ (res.domainErr = NilDomainErr /\ res.err # NilErr) =>
              /\ out.response = <<>>
              /\ out.err \in {<<"Unavailable", "dependency unavailable">>,
                              <<"Internal", "internal error">>}
              /\ ErrorsIs(res.err, ErrUnavailable) => out.err[1] = "Unavailable"
         /\ ghost[p].fault # "none" => out.response = <<>> /\ out.err # NilErr
         /\ Success(res) =>
              /\ out.err = NilErr
              /\ Len(out.response) = 1
              /\ out.response[1].error = <<>>
         /\ \A i \in DOMAIN out.response :
              ~(out.response[i].error # <<>> /\ payload(out.response[i]))
         /\ (out.response = <<>>) # (out.err = NilErr)

\* A Register call has failed on its persistence: the handler returns the
\* status Unavailable and no response.
C32_Witness ==
  \E p \in Procs :
    /\ Returned(p, "Register")
    /\ ghost[p].fault = "persistence"
    /\ UserServiceHandler("Register", result[p]) =
         [response |-> <<>>,
          err |-> <<"Unavailable", "dependency unavailable">>]

\* C33. For every password P accepted by Hash, Verify(Hash(P), P) succeeds,
\* and for every candidate Q different from P, Verify(Hash(P), Q) fails.
C33_AsStated ==
  hasher.pc = "verified" =>
    /\ hasher.hashErr = NilErr
    /\ hasher.candidate = hasher.password => hasher.verifyErr = NilErr
    /\ hasher.candidate # hasher.password => hasher.verifyErr # NilErr

\* A password of the greatest length Hash accepts was hashed, and a longer
\* candidate that begins with it has been verified successfully.
C33_Witness ==
  /\ hasher.pc = "verified"
  /\ hasher.hashErr = NilErr
  /\ Len(hasher.password) = BcryptMaxPasswordLen
  /\ Len(hasher.candidate) > BcryptMaxPasswordLen
  /\ hasher.candidate # hasher.password
  /\ SubSeq(hasher.candidate, 1, BcryptMaxPasswordLen) = hasher.password
  /\ hasher.verifyErr = NilErr

\* C34. There is no token-family tracking: a RefreshToken operation revokes
\* only the one record it looked up by the presented hash, Register and
\* Login revoke no record, and every other refresh record, other valid
\* tokens of the same user included, is left as it is; so a user can hold
\* several valid refresh tokens at once and rotating one leaves the others
\* valid.
C34_NoTokenFamily ==
  [][\A r \in refreshTokens :
       r \notin refreshTokens' =>
         \E p \in Procs :
           /\ call[p].op = "RefreshToken"
           /\ call[p].pc = "revoke"
           /\ call'[p].pc = "issue"
           /\ r.id = call[p].storedToken.id
           /\ r.tokenHash = HashToken(TrimSpace(call[p].token))
           /\ [r EXCEPT !.revokedAt = <<now>>] \in refreshTokens'
           /\ \A s \in refreshTokens : s.id # r.id => s \in refreshTokens']_vars

\* One user holds a record that was rotated, its successor, and a further
\* record from another issuance; the two that were not presented are valid.
C34_Witness ==
  \E r, s, t \in refreshTokens :
    /\ r.userID = s.userID /\ s.userID = t.userID
    /\ r.revokedAt # <<>>
    /\ <<s.id, r.id>> \in successorOf
    /\ t.id \notin {r.id, s.id}
    /\ s.revokedAt = <<>> /\ s.expiresAt > now
    /\ t.revokedAt = <<>> /\ t.expiresAt > now

\* C35. Rotation chains are continuous: the raw refresh token returned by a
\* successful Register, Login or RefreshToken is itself accepted by
\* RefreshToken exactly once, provided it is presented before its expiry,
\* its owner still exists and no dependency call fails; a client rotating
\* sequentially always holds exactly one valid token of its chain.
C35_ChainContinuous ==
  /\ \A p \in Procs :
       (call[p].pc = "done" /\ call[p].op \in {"Register", "Login", "RefreshToken"}
          /\ Success(result[p])) =>
         /\ result[p].tokens.refreshToken \in issuedRefresh
         /\ Standing(refreshTokens, HashToken(result[p].tokens.refreshToken), now)
              = "valid"
  /\ \A t \in issuedRefresh :
       Cardinality({r \in refreshTokens : r.tokenHash = HashToken(t)}) = 1
  /\ \A p \in Procs :
       (/\ Returned(p, "RefreshToken")
        /\ TrimSpace(call[p].token) \in issuedRefresh
        /\ ghost[p].fault = "none") =>
         /\ ghost[p].lookup \in {"valid", "revoked", "expired"}
         /\ ghost[p].lookup = "valid" =>
              \/ /\ Success(result[p])
                 /\ ~ghost[p].afterSuccess
                 /\ result[p].tokens.refreshToken # TrimSpace(call[p].token)
              \/ /\ ghost[p].revokeErr = "error"
                 /\ result[p] = InvalidRefreshToken
                 /\ \E r \in refreshTokens :
                      r.id = call[p].storedToken.id /\ r.revokedAt # <<>>
         /\ ghost[p].afterSuccess => ~Success(result[p])
  /\ \A r, s, t \in refreshTokens :
       (<<s.id, r.id>> \in successorOf /\ <<t.id, r.id>> \in successorOf) =>
         s = t /\ r.revokedAt # <<>> /\ s.userID = r.userID

\* A token that a RefreshToken call returned has itself been presented and
\* accepted: the chain is three records long and only its last is valid.
C35_Witness ==
  \E p \in Procs :
    /\ Returned(p, "RefreshToken")
    /\ Success(result[p])
    /\ \E r, s, t \in refreshTokens :
         /\ <<s.id, r.id>> \in successorOf
         /\ <<t.id, s.id>> \in successorOf
         /\ s.tokenHash = HashToken(TrimSpace(call[p].token))
         /\ t.tokenHash = HashToken(result[p].tokens.refreshToken)
         /\ r.revokedAt # <<>> /\ s.revokedAt # <<>>
         /\ t.revokedAt = <<>> /\ t.expiresAt > now

\* C36. Register leaves no partial write: if Register returns an
\* infrastructure failure (also one of token signing or of the refresh-record
\* insert after the user row was written), no user has been persisted, so
\* that the failed attempt cannot make a later Register with the same email
\* return AUTH_EMAIL_TAKEN.
C36_AsStated ==
  \A p \in Procs :
    (Returned(p, "Register") /\ result[p].err # NilErr) =>
      /\ ~\E u \in users : u.id \in ghost[p].created
      /\ ~\E u \in users : u.id = call[p].persistedUser.id

\* A Register call has returned an infrastructure failure from issueTokens,
\* no token was ever issued, and the user row it created is in the store
\* under the normalized email.
C36_Witness ==
  \E p \in Procs :
    /\ Returned(p, "Register")
    /\ result[p].err # NilErr
    /\ result[p].domainErr = NilDomainErr
    /\ ghost[p].inserted = {}
    /\ issuedRefresh = {}
    /\ \E u \in users : /\ u.id \in ghost[p].created
                        /\ u.id = call[p].persistedUser.id
                        /\ u.email = NormalizeEmail(call[p].email)

\* C37. Login returns success exactly when a user exists whose stored email
\* equals the trimmed, lower-cased input email, the hasher verifies the
\* untrimmed input password against that user's stored hash, and token
\* issuance succeeds; the returned user is that stored user and the refresh
\* record inserted is owned by that user's id.
C37_LoginSuccess ==
  \A p \in Procs :
    Returned(p, "Login") =>
      LET owners == {u \in users : u.email = ToLower(TrimSpace(call[p].email))}
          verified == {u \in owners :
                         BcryptVerify(u.passwordHash, call[p].password) = NilErr}
          issued == {r \in refreshTokens : r.id \in ghost[p].inserted}
      IN /\ Success(result[p]) <=> (verified # {} /\ issued # {})
         /\ (verified # {} /\ ghost[p].fault = "none") => Success(result[p])
         /\ Success(result[p]) =>
              /\ Cardinality(owners) = 1
              /\ \A u \in owners :
                   /\ result[p].user = mapUser(u)
                   /\ ghost[p].emailKnown = "yes"
                   /\ ghost[p].passwordOK = "yes"
                   /\ \A r \in issued : r.userID = u.id
              /\ Cardinality(issued) = 1
              /\ \A r \in issued :
                   r.tokenHash = HashToken(result[p].tokens.refreshToken)
         /\ ~Success(result[p]) => result[p].user = ZeroUser

\* A Login with the registered address in another spelling has succeeded,
\* and the record it inserted belongs to the user it returned.
C37_Witness ==
  \E p \in Procs :
    /\ Returned(p, "Login")
    /\ Success(result[p])
    /\ call[p].email # ToLower(TrimSpace(call[p].email))
    /\ \E u \in users, r \in refreshTokens :
         /\ u.email = ToLower(TrimSpace(call[p].email))
         /\ result[p].user.id = u.id
         /\ r.id \in ghost[p].inserted
         /\ r.userID = u.id

\* C38. Bearer extraction accepts an Authorization header value if and only
\* if splitting it on whitespace yields exactly two fields and the first
\* field equals "Bearer" case-insensitively; the token handed to the
\* validator is then the second field unchanged; every other header value
\* (empty, one field, three or more fields, another scheme) is rejected.
C38_BearerExtraction ==
  edge.pc # "idle" =>
    LET parts == Fields(edge.input.value)
        wellFormed == /\ Len(parts) = 2
                      /\ ToLower(parts[1]) = <<"b", "e", "a", "r", "e", "r">>
    IN /\ wellFormed <=> edge.input.bearer
       /\ wellFormed <=> edge.calls # <<>>
       /\ wellFormed =>
            /\ Len(edge.calls) = 1
            /\ edge.calls[1].token = parts[2]
            /\ edge.calls[1].token = edge.input.token
            /\ \A i \in DOMAIN parts[2] : ~IsSpace(parts[2][i])
       /\ ~wellFormed =>
            /\ edge.pc = "done"
            /\ Responded(401, "unauthorized")
            /\ edge.handled = <<>>

\* A header in capitals with blanks around its two fields was accepted and
\* its second field was handed to the validator.
C38_Witness ==
  /\ edge.pc = "waiting"
  /\ edge.input.value = <<" ", "B", "E", "A", "R", "E", "R", " ", " ", "u", " ">>
  /\ edge.calls = <<[token |-> <<"u">>, requestID |-> edge.requestID]>>

\* C39 as stated: Shutdown always terminates; it first marks health
\* NOT_SERVING; it returns nil if the graceful stop completed before the
\* context was done, and otherwise it forces Stop, waits for the goroutine and
\* returns the context's error; the goroutine has finished at the return.
\* The select of Shutdown does not see which of the two came first: reached
\* with done closed and the context done, it takes either case.
C39_AsStated ==
  /\ [](server.stopper # "none" => server.health = "NOT_SERVING")
  /\ [](server.pc = "returned" =>
          /\ server.stopper = "finished"
          /\ server.first = "stop" =>
               server.ret = "nil" /\ ~server.forced
          /\ server.first = "ctx" =>
               server.ret = "DeadlineExceeded" /\ server.forced)
  /\ <>(server.pc = "returned")

\* C39: Shutdown always terminates under a context that times out; health is
\* NOT_SERVING before the graceful stop starts; nil is returned only without
\* Stop and after the graceful stop completed, and always when the context is
\* not done at the return; the context's error is returned only after the
\* context was done and Stop was called; Shutdown waits for done only after
\* Stop; the goroutine has finished when Shutdown returns.
C39_Shutdown ==
  /\ [](server.stopper # "none" => server.health = "NOT_SERVING")
  /\ [](server.forced => server.ctxDone)
  /\ [](server.pc = "draining" => server.forced)
  /\ [](server.pc = "returned" =>
          /\ server.stopper = "finished"
          /\ server.ret \in {"nil", "DeadlineExceeded"}
          /\ server.ret = "nil" <=> ~server.forced
          /\ server.ret = "DeadlineExceeded" => server.ctxDone
          /\ ~server.ctxDone => server.ret = "nil")
  /\ <>(server.pc = "returned")

\* Shutdown returned the context's error after Stop although the graceful
\* stop had completed before the context was done.
C39_Witness ==
  /\ server.pc = "returned"
  /\ server.first = "stop"
  /\ server.forced
  /\ server.ret = "DeadlineExceeded"

=============================================================================
